---- MODULE Spec2Model ----
(***************************************************************************)
(* Model of the compilation-unit driver of gcc/cgraphunit.c.               *)
(*                                                                         *)
(* The callgraph store (cgraph.c), the unreachable-node removal and the    *)
(* inliner (ipa.c, ipa-inline.c) are not part of cgraphunit.c; the         *)
(* operators that stand for them are marked "store" or "collaborator"      *)
(* below.  Every other operator is a translation of a function of          *)
(* cgraphunit.c, named after it.                                           *)
(***************************************************************************)
EXTENDS Integers, Sequences, FiniteSets, TLC

\* ---------------------------------------------------------------- bounds
\* Number of function declarations the front-end may finalize.
NDecl == 2
\* Number of static constructors/destructors cgraph_build_static_cdtor builds.
MaxCdtor == 1
\* Number of static variables.
NVar == 1
\* Total number of declarations and notifications the front-end hands over
\* (cgraph_finalize_function, cgraph_varpool_finalize_decl,
\* cgraph_mark_needed_node, cgraph_build_static_cdtor, a killed body).
MaxEvents == 3
\* Number of cgraph_finalize_compilation_unit calls.
MaxUnits == 2
\* Longest body, in statements, and largest number of call edges of a graph
\* handed to the verifier.
MaxStmts == 2
MaxEdges == 2

NULL == 0
UserDecls == 1..NDecl
CdtorDecls == (NDecl + 1)..(NDecl + MaxCdtor)
Decls == 1..(NDecl + MaxCdtor)
Vars == 1..NVar

VARIABLES
  flag_unit_at_a_time,      \* mode switch, sampled at each decision site
  flag_whole_program,
  have_ctors_dtors,         \* targetm.have_ctors_dtors
  node,                     \* struct cgraph_node, by node (= main declaration)
  cgraph_nodes,             \* list of all nodes, newest first
  cgraph_nodes_queue,       \* function worklist (next_needed chain)
  edges,                    \* all call edges, in creation order
  tree,                     \* the FUNCTION_DECLs' tree flags and bodies
  vtree,                    \* the VAR_DECLs' tree flags and initializers
  vnode,                    \* struct cgraph_varpool_node, by variable
  varpool_queue,            \* cgraph_varpool_nodes_queue
  varpool_unanalyzed,       \* chain from cgraph_varpool_first_unanalyzed_node
  first_analyzed,           \* static local of cgraph_finalize_compilation_unit
  cgraph_global_info_ready,
  cgraph_function_flags_ready,
  counter,                  \* static local of cgraph_build_static_cdtor
  trace,                    \* calls made to the back-end, in order
  pc,                       \* position of the driver
  work,                     \* cursor of the loop the driver is in
  failure,                  \* the assertion that aborted the compiler, or ""
  last_call,                \* the entry point that returned last
  last_decl,                \* its decl argument, or NULL
  last_nested,              \* its nested argument
  diagnostics,              \* the messages passed to error (), in order
  errorcount,               \* number of errors reported so far
  sorrycount,               \* number of sorry () calls so far
  dump_tree_all,            \* dump_enabled_p (TDI_tree_all)
  node_decl,                \* node->decl, by node
  next_clone,               \* node->next_clone, by node
  ggc,                      \* the ggc_collect call it made, if any
  nevents,                  \* number of front-end events so far
  nunits                    \* number of cgraph_finalize_compilation_unit calls

vars == <<flag_unit_at_a_time, flag_whole_program, have_ctors_dtors, node,
          cgraph_nodes, cgraph_nodes_queue, edges, tree, vtree, vnode, varpool_queue,
          varpool_unanalyzed, first_analyzed, cgraph_global_info_ready,
          cgraph_function_flags_ready, counter, trace, pc, work, failure,
          last_call, last_decl, last_nested, diagnostics, errorcount,
          sorrycount, dump_tree_all, node_decl, next_clone, ggc, nevents,
          nunits>>

\* ------------------------------------------------------- sequence helpers
SeqToSet(s) == {s[i] : i \in 1..Len(s)}
InSeq(x, s) == \E i \in 1..Len(s) : s[i] = x
RemoveFromSeq(s, x) == SelectSeq(s, LAMBDA y : y # x)
IndexOf(s, x) == CHOOSE i \in 1..Len(s) : s[i] = x

\* ------------------------------------------------------------ data model
\* struct cgraph_node with its local and global parts flattened.
NewNode ==
  [finalized |-> FALSE, local |-> FALSE, externally_visible |-> FALSE,
   inlinable |-> FALSE, disregard_inline_limits |-> FALSE,
   redefined_extern_inline |-> FALSE, inlined_to |-> NULL,
   reachable |-> FALSE, needed |-> FALSE, analyzed |-> FALSE,
   lowered |-> FALSE, output |-> FALSE]

NewVarNode ==
  [finalized |-> FALSE, externally_visible |-> FALSE, needed |-> FALSE,
   analyzed |-> FALSE]

\* Tree flags of a VAR_DECL: TREE_PUBLIC, DECL_INITIAL (the functions whose
\* address it holds), TREE_ASM_WRITTEN, TREE_SYMBOL_REFERENCED of its name.
NewVarTree ==
  [public |-> FALSE, init |-> <<>>, asm_written |-> FALSE, referenced |-> FALSE]

\* Tree flags of a FUNCTION_DECL as the front-end may set them.
Kind(pub, comdat, ext, main, used, asmref, inl) ==
  [public |-> pub, comdat |-> comdat, main |-> main, used |-> used,
   external |-> ext, asm_referenced |-> asmref, decl_inline |-> inl]

K_static == Kind(FALSE, FALSE, FALSE, FALSE, FALSE, FALSE, FALSE)
K_comdat == Kind(TRUE, TRUE, FALSE, FALSE, FALSE, FALSE, TRUE)
K_extern_inline == Kind(TRUE, FALSE, TRUE, FALSE, FALSE, FALSE, TRUE)
K_main == Kind(TRUE, FALSE, FALSE, TRUE, FALSE, FALSE, FALSE)
K_static_inline == Kind(FALSE, FALSE, FALSE, FALSE, FALSE, FALSE, TRUE)

\* A declaration the front-end has seen but not defined.
NewTree(k) ==
  [public |-> k.public, asm_written |-> FALSE, comdat |-> k.comdat,
   main |-> k.main, used |-> k.used, external |-> k.external,
   asm_referenced |-> k.asm_referenced, decl_inline |-> k.decl_inline,
   cdtor |-> "", has_body |-> FALSE, body |-> <<>>]

\* Inline-failure reasons; "" stands for the null pointer (edge inlined).
REDEFINED == "redefined extern inline functions are not considered for inlining"
NOT_INLINABLE == "function not inlinable"
NOT_CONSIDERED == "function not considered for inlining"
BODY_NOT_AVAILABLE == "function body not available"

\* No call of ggc_collect; and the call of ggc_collect made when the function
\* worklist was q and the back-end had been called for the functions of t.
NoCollection == [trace |-> <<>>, done |-> FALSE, queue |-> <<>>]
Collection(q, t) == [trace |-> t, done |-> TRUE, queue |-> q]

\* The graph state the C functions read and write, as one value, with the
\* arguments of the entry point that is running.
G ==
  [node |-> node, nodes |-> cgraph_nodes, queue |-> cgraph_nodes_queue,
   edges |-> edges, tree |-> tree, vtree |-> vtree, vnode |-> vnode,
   vqueue |-> varpool_queue,
   vunan |-> varpool_unanalyzed, trace |-> trace,
   ready |-> cgraph_global_info_ready, flags_ready |-> cgraph_function_flags_ready,
   uaat |-> flag_unit_at_a_time, whole |-> flag_whole_program, fail |-> "",
   decl |-> NULL, nested |-> FALSE, gc |-> NoCollection,
   errors |-> diagnostics, error_found |-> FALSE,
   errorcount |-> errorcount, sorrycount |-> sorrycount,
   dump |-> dump_tree_all, node_decl |-> node_decl, next_clone |-> next_clone]

\* A failed gcc_assert: the first one is the one that aborts.
Fail(g, why) == IF g.fail = "" THEN [g EXCEPT !.fail = why] ELSE g

\* Sequencing of C statements: Bind names the graph a statement leaves, Then
\* runs the statements that follow only when no assertion has failed.  The
\* graph is a value by then: it is computed once.
Bind(g, Rest(_)) == CHOOSE r \in {Rest(x) : x \in {g}} : TRUE
Then(g, Rest(_)) ==
  CHOOSE r \in {IF x.fail = "" THEN Rest(x) ELSE x : x \in {g}} : TRUE

\* ggc_collect (), the garbage collector of the tree IR.
ggc_collect(g) == [g EXCEPT !.gc = Collection(g.queue, g.trace)]

\* ------------------------------------------------- callgraph store (cgraph.c)
\* cgraph_node (decl): the node interned for decl, created on first lookup
\* and linked at the head of cgraph_nodes.
cgraph_node(g, d) ==
  IF InSeq(d, g.nodes) THEN g
  ELSE [g EXCEPT !.nodes = <<d>> \o g.nodes, !.node[d] = NewNode]

\* cgraph_create_edge (caller, callee, call_stmt, count, nest).
cgraph_create_edge(g, caller, callee, stmt) ==
  LET why == IF ~g.tree[callee].has_body THEN BODY_NOT_AVAILABLE
             ELSE IF g.node[callee].redefined_extern_inline THEN REDEFINED
             ELSE IF g.node[callee].inlinable THEN NOT_CONSIDERED
             ELSE NOT_INLINABLE
  IN [g EXCEPT !.edges = Append(g.edges,
         [caller |-> caller, callee |-> callee, stmt |-> stmt,
          inline_failed |-> why, aux |-> FALSE])]

\* cgraph_node_remove_callees (node).
cgraph_node_remove_callees(g, n) ==
  [g EXCEPT !.edges = SelectSeq(g.edges, LAMBDA e : e.caller # n)]

\* cgraph_remove_node (node): unlinks the node from every edge list and from
\* the node list and the hash; in unit-at-a-time mode the body of the
\* declaration is released with it.
cgraph_remove_node(g, n) ==
  [g EXCEPT !.edges = SelectSeq(g.edges,
                        LAMBDA e : e.caller # n /\ e.callee # n),
            !.nodes = RemoveFromSeq(g.nodes, n),
            !.node[n] = NewNode,
            !.tree[n].has_body = IF g.uaat THEN FALSE ELSE g.tree[n].has_body,
            !.tree[n].body = IF g.uaat THEN <<>> ELSE g.tree[n].body]

\* Linking a node at the head of the next_needed chain.
Enqueue_at_head(q, n) == <<n>> \o q

\* Linking a node at the end of the next_needed chain.
Enqueue(q, n) == Append(q, n)

\* cgraph_mark_reachable_node (node).
cgraph_mark_reachable_node(g, n) ==
  IF ~g.node[n].reachable /\ g.node[n].finalized
  THEN IF g.ready
       THEN Fail(g, "mark_reachable: !cgraph_global_info_ready")
       ELSE [g EXCEPT !.node[n].reachable = TRUE,
                      !.queue = Enqueue(g.queue, n)]
  ELSE g

\* cgraph_mark_needed_node setting the flag of a node that is not reachable
\* yet without queueing it.
cgraph_mark_needed_node_flag_only(g, n) ==
  IF g.node[n].reachable
  THEN cgraph_mark_reachable_node([g EXCEPT !.node[n].needed = TRUE], n)
  ELSE [g EXCEPT !.node[n].needed = TRUE]

\* cgraph_mark_needed_node (node).
cgraph_mark_needed_node(g, n) ==
  cgraph_mark_reachable_node([g EXCEPT !.node[n].needed = TRUE], n)

\* cgraph_varpool_enqueue_needed_node (node).
cgraph_varpool_enqueue_needed_node(g, v) ==
  [g EXCEPT !.vqueue = Append(g.vqueue, v), !.vunan = Append(g.vunan, v)]

\* cgraph_varpool_mark_needed_node (node).
cgraph_varpool_mark_needed_node(g, v) ==
  LET g1 == IF ~g.vnode[v].needed /\ g.vnode[v].finalized
               /\ ~g.vtree[v].asm_written
            THEN cgraph_varpool_enqueue_needed_node(g, v) ELSE g
  IN [g1 EXCEPT !.vnode[v].needed = TRUE]

\* -------------------------------------------------------- cgraphunit.c
\* decide_is_function_needed without its test of DECL_STATIC_CONSTRUCTOR and
\* DECL_STATIC_DESTRUCTOR.
decide_is_function_needed_no_cdtor(g, d) ==
  \/ g.tree[d].main /\ g.tree[d].public
  \/ g.node[d].externally_visible
  \/ g.tree[d].used
  \/ g.tree[d].asm_referenced
  \/ g.node[d].needed
  \/ (g.tree[d].public /\ ~g.whole /\ ~g.tree[d].comdat /\ ~g.tree[d].external)
  \/ /\ ~g.uaat
     /\ ~g.tree[d].external
     /\ ~g.tree[d].comdat
     /\ ~g.tree[d].decl_inline

\* decide_is_function_needed taking a public COMDAT function for one that must
\* be output.
decide_is_function_needed_comdat(g, d) ==
  \/ g.tree[d].main /\ g.tree[d].public
  \/ g.node[d].externally_visible
  \/ g.tree[d].used
  \/ g.tree[d].asm_referenced
  \/ g.node[d].needed
  \/ (g.tree[d].public /\ ~g.whole /\ ~g.tree[d].external)
  \/ g.tree[d].cdtor # ""
  \/ /\ ~g.uaat
     /\ ~g.tree[d].external
     /\ ~g.tree[d].comdat
     /\ ~g.tree[d].decl_inline

\* decide_is_function_needed without its test of node->needed.
decide_is_function_needed_no_needed(g, d) ==
  \/ g.tree[d].main /\ g.tree[d].public
  \/ g.node[d].externally_visible
  \/ g.tree[d].used
  \/ g.tree[d].asm_referenced
  \/ (g.tree[d].public /\ ~g.whole /\ ~g.tree[d].comdat /\ ~g.tree[d].external)
  \/ g.tree[d].cdtor # ""
  \/ /\ ~g.uaat
     /\ ~g.tree[d].external
     /\ ~g.tree[d].comdat
     /\ ~g.tree[d].decl_inline

\* decide_is_function_needed (node, decl), the value returned.  Every
\* DECL_INLINE declaration of the model is declared inline, so the last test
\* of the function reduces to !DECL_INLINE (decl).
decide_is_function_needed(g, d) ==
  \/ g.tree[d].main /\ g.tree[d].public
  \/ g.node[d].externally_visible
  \/ g.tree[d].used
  \/ g.tree[d].asm_referenced
  \/ g.node[d].needed
  \/ (g.tree[d].public /\ ~g.whole /\ ~g.tree[d].comdat /\ ~g.tree[d].external)
  \/ g.tree[d].cdtor # ""
  \/ /\ ~g.uaat
     /\ ~g.tree[d].external
     /\ ~g.tree[d].comdat
     /\ ~g.tree[d].decl_inline

\* decide_is_function_needed (node, decl), its effect on the node.
decide_is_function_needed_effect(g, d) ==
  IF g.tree[d].main /\ g.tree[d].public
  THEN [g EXCEPT !.node[d].externally_visible = TRUE]
  ELSE g

\* record_reference (tp, walk_subtrees, data) on one operand.
record_reference(g, s) ==
  IF s.kind = "var"
  THEN cgraph_varpool_mark_needed_node(g, s.d)
  ELSE IF s.kind = "addr" /\ g.uaat
       THEN cgraph_mark_needed_node(cgraph_node(g, s.d), s.d)
       ELSE g

\* The statement loop of cgraph_create_edges (node, body), from statement i.
RECURSIVE CreateEdgesFrom(_, _, _)
CreateEdgesFrom(g, n, i) ==
  IF i > Len(g.tree[n].body) THEN g
  ELSE LET s == g.tree[n].body[i]
           g1 == IF s.kind = "call"
                 THEN cgraph_create_edge(cgraph_node(g, s.d), n, s.d, i)
                 ELSE record_reference(g, s)
       IN CreateEdgesFrom(g1, n, i + 1)

cgraph_create_edges(g, n) == CreateEdgesFrom(g, n, 1)

\* tree_inlinable_function_p (decl), the inliner's oracle.
tree_inlinable_function_p(g, d) == g.tree[d].decl_inline /\ g.tree[d].cdtor = ""

\* initialize_inline_failed testing local.inlinable before
\* local.redefined_extern_inline.
initialize_inline_failed_inlinable_first(g, n) ==
  LET why == IF ~g.node[n].inlinable THEN NOT_INLINABLE
             ELSE IF g.node[n].redefined_extern_inline THEN REDEFINED
             ELSE NOT_CONSIDERED
  IN IF \E i \in 1..Len(g.edges) : g.edges[i].callee = n
     THEN IF g.node[n].inlined_to # NULL
          THEN Fail(g, "initialize_inline_failed: !e->callee->global.inlined_to")
          ELSE IF \E i \in 1..Len(g.edges) :
                    g.edges[i].callee = n /\ g.edges[i].inline_failed = ""
          THEN Fail(g, "initialize_inline_failed: e->inline_failed")
          ELSE [g EXCEPT !.edges =
                  [i \in 1..Len(g.edges) |->
                     IF g.edges[i].callee = n
                     THEN [g.edges[i] EXCEPT !.inline_failed = why]
                     ELSE g.edges[i]]]
     ELSE g

\* initialize_inline_failed (node).
initialize_inline_failed(g, n) ==
  LET why == IF g.node[n].redefined_extern_inline THEN REDEFINED
             ELSE IF ~g.node[n].inlinable THEN NOT_INLINABLE
             ELSE NOT_CONSIDERED
  IN IF \E i \in 1..Len(g.edges) : g.edges[i].callee = n
     THEN IF g.node[n].inlined_to # NULL
          THEN Fail(g, "initialize_inline_failed: !e->callee->global.inlined_to")
          ELSE IF \E i \in 1..Len(g.edges) :
                    g.edges[i].callee = n /\ g.edges[i].inline_failed = ""
          THEN Fail(g, "initialize_inline_failed: e->inline_failed")
          ELSE [g EXCEPT !.edges =
                  [i \in 1..Len(g.edges) |->
                     IF g.edges[i].callee = n
                     THEN [g.edges[i] EXCEPT !.inline_failed = why]
                     ELSE g.edges[i]]]
     ELSE g

\* cgraph_lower_function (node).
cgraph_lower_function(g, n) == [g EXCEPT !.node[n].lowered = TRUE]

\* cgraph_analyze_function (node).
cgraph_analyze_function(g, n) ==
  Bind(cgraph_create_edges(cgraph_lower_function(g, n), n), LAMBDA g1 :
  Then(initialize_inline_failed(
         [g1 EXCEPT !.node[n].inlinable = tree_inlinable_function_p(g1, n)], n),
       LAMBDA g3 : [g3 EXCEPT !.node[n].analyzed = TRUE]))

\* cgraph_varpool_analyze_pending_decls (): the graph after the drain.
RECURSIVE WalkInit(_, _, _)
WalkInit(g, init, i) ==
  IF i > Len(init) THEN g ELSE WalkInit(record_reference(g, init[i]), init, i + 1)

\* The loop: <<graph, changed>>.
RECURSIVE AnalyzePendingDecls(_, _)
AnalyzePendingDecls(g, changed) ==
  IF g.vunan = <<>> THEN <<g, changed>>
  ELSE LET v == Head(g.vunan)
           g1 == [g EXCEPT !.vnode[v].analyzed = TRUE, !.vunan = Tail(g.vunan)]
       IN AnalyzePendingDecls(WalkInit(g1, g1.vtree[v].init, 1), TRUE)

cgraph_varpool_analyze_pending_decls(g) == AnalyzePendingDecls(g, FALSE)[1]

\* The value cgraph_varpool_analyze_pending_decls returns.
cgraph_varpool_analyze_pending_decls_changed(g) == AnalyzePendingDecls(g, FALSE)[2]

\* The loop "for (n = cgraph_nodes; n; n = n->next) if (n->global.inlined_to
\* == node) cgraph_remove_node (n)" over the nodes of todo.
RECURSIVE RemoveInlinedInto(_, _, _)
RemoveInlinedInto(g, todo, d) ==
  IF todo = <<>> THEN g
  ELSE RemoveInlinedInto(
         IF g.node[Head(todo)].inlined_to = d
         THEN cgraph_remove_node(g, Head(todo)) ELSE g,
         Tail(todo), d)

\* The reset without the memset of node->global.
ResetNodeData_keep_global(g, n) ==
  [g EXCEPT !.node[n] =
     [g.node[n] EXCEPT
        !.finalized = FALSE, !.local = FALSE,
        !.externally_visible = FALSE, !.inlinable = FALSE,
        !.disregard_inline_limits = FALSE,
        !.analyzed = FALSE, !.redefined_extern_inline = TRUE]]

\* cgraph_reset_node (node).
ResetNodeData(g, n) ==
  [g EXCEPT !.node[n] =
     [g.node[n] EXCEPT
        !.finalized = FALSE, !.local = FALSE,
        !.externally_visible = FALSE, !.inlinable = FALSE,
        !.disregard_inline_limits = FALSE, !.inlined_to = NULL,
        !.analyzed = FALSE, !.redefined_extern_inline = TRUE]]

\* cgraph_reset_node without the loop that removes the nodes inlined into
\* the node.
cgraph_reset_node_keep_inlined(g, n) ==
  IF g.node[n].output THEN Fail(g, "cgraph_reset_node: !node->output")
  ELSE
    Bind(ResetNodeData(g, n), LAMBDA g1 :
    Bind(cgraph_node_remove_callees(g1, n), LAMBDA g3 :
      IF g3.node[n].reachable /\ ~g3.uaat /\ ~InSeq(n, g3.queue)
      THEN [g3 EXCEPT !.node[n].reachable = FALSE]
      ELSE g3))

\* cgraph_reset_node clearing reachable without looking for the node in
\* cgraph_nodes_queue.
cgraph_reset_node_no_queue_walk(g, n) ==
  IF g.node[n].output THEN Fail(g, "cgraph_reset_node: !node->output")
  ELSE
    Bind(ResetNodeData(g, n), LAMBDA g1 :
    Bind(IF g1.uaat THEN g1 ELSE RemoveInlinedInto(g1, g1.nodes, n), LAMBDA g2 :
    Bind(cgraph_node_remove_callees(g2, n), LAMBDA g3 :
      IF g3.node[n].reachable /\ ~g3.uaat
      THEN [g3 EXCEPT !.node[n].reachable = FALSE]
      ELSE g3)))

\* cgraph_reset_node leaving the callee edges of the old body in place.
cgraph_reset_node_keep_callees(g, n) ==
  IF g.node[n].output THEN Fail(g, "cgraph_reset_node: !node->output")
  ELSE
    Bind(ResetNodeData(g, n), LAMBDA g1 :
    Bind(IF g1.uaat THEN g1 ELSE RemoveInlinedInto(g1, g1.nodes, n), LAMBDA g2 :
      IF g2.node[n].reachable /\ ~g2.uaat /\ ~InSeq(n, g2.queue)
      THEN [g2 EXCEPT !.node[n].reachable = FALSE]
      ELSE g2))

cgraph_reset_node(g, n) ==
  IF g.node[n].output THEN Fail(g, "cgraph_reset_node: !node->output")
  ELSE
    Bind(ResetNodeData(g, n), LAMBDA g1 :
    Bind(IF g1.uaat THEN g1 ELSE RemoveInlinedInto(g1, g1.nodes, n), LAMBDA g2 :
    Bind(cgraph_node_remove_callees(g2, n), LAMBDA g3 :
      IF g3.node[n].reachable /\ ~g3.uaat /\ ~InSeq(n, g3.queue)
      THEN [g3 EXCEPT !.node[n].reachable = FALSE]
      ELSE g3)))

\* The clone loop of cgraph_preserve_function_body_p.
RECURSIVE AnyCloneInlined(_, _)
AnyCloneInlined(g, n) ==
  /\ n # NULL
  /\ g.node[n].inlined_to # NULL \/ AnyCloneInlined(g, g.next_clone[n])

\* cgraph_preserve_function_body_p looking at the clones whether the global
\* information is ready or not.
cgraph_preserve_function_body_p_clones_only(g, d) ==
  g.dump \/ AnyCloneInlined(g, d)

\* cgraph_preserve_function_body_p (decl).
cgraph_preserve_function_body_p(g, d) ==
  IF g.dump THEN TRUE
  ELSE IF ~g.ready THEN g.tree[d].decl_inline
  ELSE AnyCloneInlined(g, d)

\* lang_hooks.callgraph.expand_function (decl), the back-end: it writes the
\* assembly of the function; when not doing unit-at-a-time, the functions
\* its code refers to are marked needed on the way (mark_referenced).
RECURSIVE BackEndRefs(_, _, _)
BackEndRefs(g, body, i) ==
  IF i > Len(body) THEN g
  ELSE LET s == body[i]
           g1 == IF s.kind \in {"call", "addr"} /\ ~g.tree[s.d].external
                 THEN cgraph_mark_needed_node(cgraph_node(g, s.d), s.d)
                 ELSE IF s.kind = "var"
                 THEN cgraph_varpool_mark_needed_node(
                        [g EXCEPT !.vtree[s.d].referenced = TRUE], s.d)
                 ELSE g
       IN BackEndRefs(g1, body, i + 1)

RECURSIVE BackEndVarRefs(_, _, _)
BackEndVarRefs(g, body, i) ==
  IF i > Len(body) THEN g
  ELSE LET s == body[i]
           g1 == IF s.kind = "var"
                 THEN cgraph_varpool_mark_needed_node(
                        [g EXCEPT !.vtree[s.d].referenced = TRUE], s.d)
                 ELSE g
       IN BackEndVarRefs(g1, body, i + 1)

expand_function_hook(g, d) ==
  Bind(RemoveInlinedInto([g EXCEPT !.tree[d].asm_written = TRUE,
                                   !.trace = Append(g.trace, d)], g.nodes, d),
       LAMBDA g2 : IF g2.uaat THEN BackEndVarRefs(g2, g2.tree[d].body, 1)
                   ELSE BackEndRefs(g2, g2.tree[d].body, 1))

\* cgraph_expand_function (node).
cgraph_expand_function(g, n) ==
  IF g.node[n].inlined_to # NULL
  THEN Fail(g, "cgraph_expand_function: !node->global.inlined_to")
  ELSE
    Then(expand_function_hook(cgraph_lower_function(g, n), n), LAMBDA g1 :
      IF cgraph_preserve_function_body_p(g1, n)
      THEN [g1 EXCEPT !.flags_ready = TRUE]
      ELSE cgraph_node_remove_callees(
             [g1 EXCEPT !.flags_ready = TRUE, !.tree[n].has_body = FALSE,
                        !.tree[n].body = <<>>], n))

\* cgraph_assemble_pending_functions (): <<graph, value returned>>.
RECURSIVE AssemblePending(_, _)
AssemblePending(g, output) ==
  IF g.queue = <<>> \/ g.fail # "" THEN <<g, output>>
  ELSE LET n == Head(g.queue)
           g1 == [g EXCEPT !.queue = Tail(g.queue)]
       IN IF g1.node[n].inlined_to = NULL /\ ~g1.tree[n].external
          THEN AssemblePending(cgraph_expand_function(g1, n), TRUE)
          ELSE AssemblePending(g1, output)

\* cgraph_assemble_pending_functions without its test of flag_unit_at_a_time.
cgraph_assemble_pending_functions_any_mode(g) == AssemblePending(g, FALSE)

\* cgraph_assemble_pending_functions leaving its loop after the first node.
cgraph_assemble_pending_functions_first_only(g) ==
  IF g.uaat \/ g.queue = <<>> THEN <<g, FALSE>>
  ELSE Bind([g EXCEPT !.queue = Tail(g.queue)], LAMBDA g1 :
         IF g1.node[Head(g.queue)].inlined_to = NULL
            /\ ~g1.tree[Head(g.queue)].external
         THEN <<cgraph_expand_function(g1, Head(g.queue)), TRUE>>
         ELSE <<g1, FALSE>>)

cgraph_assemble_pending_functions(g) ==
  IF g.uaat THEN <<g, FALSE>> ELSE AssemblePending(g, FALSE)

\* cgraph_finalize_function calling ggc_collect before
\* cgraph_assemble_pending_functions.
cgraph_finalize_function_collect_first(g, d, nested) ==
  Bind(cgraph_node(g, d), LAMBDA g1 :
  Then(IF g1.node[d].finalized THEN cgraph_reset_node(g1, d) ELSE g1, LAMBDA g2 :
  Bind([g2 EXCEPT !.node[d].finalized = TRUE, !.node[d].lowered = FALSE],
       LAMBDA g3 :
  Then(IF g3.uaat THEN g3 ELSE cgraph_analyze_function(g3, d), LAMBDA g4 :
  Then(IF decide_is_function_needed(g4, d)
       THEN cgraph_mark_needed_node(decide_is_function_needed_effect(g4, d), d)
       ELSE g4, LAMBDA g5 :
  Then(IF g5.tree[d].public /\ ~g5.tree[d].comdat /\ ~g5.tree[d].external
       THEN cgraph_mark_reachable_node(g5, d)
       ELSE g5, LAMBDA g6 :
    IF nested THEN g6
    ELSE cgraph_assemble_pending_functions(ggc_collect(g6))[1]))))))

\* cgraph_finalize_function (decl, nested), the front-end having stored the
\* body in DECL_SAVED_TREE (decl).
cgraph_finalize_function(g, d, nested) ==
  Bind(cgraph_node(g, d), LAMBDA g1 :
  Then(IF g1.node[d].finalized THEN cgraph_reset_node(g1, d) ELSE g1, LAMBDA g2 :
  Bind([g2 EXCEPT !.node[d].finalized = TRUE, !.node[d].lowered = FALSE],
       LAMBDA g3 :
  Then(IF g3.uaat THEN g3 ELSE cgraph_analyze_function(g3, d), LAMBDA g4 :
  Then(IF decide_is_function_needed(g4, d)
       THEN cgraph_mark_needed_node(decide_is_function_needed_effect(g4, d), d)
       ELSE g4, LAMBDA g5 :
  Then(IF g5.tree[d].public /\ ~g5.tree[d].comdat /\ ~g5.tree[d].external
       THEN cgraph_mark_reachable_node(g5, d)
       ELSE g5, LAMBDA g6 :
    IF nested THEN g6
    ELSE Bind(cgraph_assemble_pending_functions(g6), LAMBDA r :
           IF r[2] THEN r[1] ELSE ggc_collect(r[1]))))))))

\* The loop of cgraph_finalize_compilation_unit over the callees of a node
\* it has just analyzed.
RECURSIVE MarkCalleesReachable(_, _, _)
MarkCalleesReachable(g, n, i) ==
  IF i > Len(g.edges) \/ g.fail # "" THEN g
  ELSE LET e == g.edges[i]
       IN IF e.caller = n /\ ~g.node[e.callee].reachable
          THEN MarkCalleesReachable(cgraph_mark_reachable_node(g, e.callee), n, i + 1)
          ELSE MarkCalleesReachable(g, n, i + 1)

\* One iteration of the worklist loop of cgraph_finalize_compilation_unit.
FinalizeUnitDrainNode(g1, n) ==
  IF ~g1.tree[n].has_body THEN cgraph_reset_node(g1, n)
  ELSE IF g1.node[n].analyzed \/ ~g1.node[n].reachable
  THEN Fail(g1, "finalize_compilation_unit: !node->analyzed && node->reachable")
  ELSE Then(cgraph_analyze_function(g1, n), LAMBDA g2 :
       Then(MarkCalleesReachable(g2, n, 1), LAMBDA g3 :
         cgraph_varpool_analyze_pending_decls(g3)))

\* The worklist loop processing the head of the worklist without unlinking
\* it.
FinalizeUnitDrainStep_no_dequeue(g) == FinalizeUnitDrainNode(g, Head(g.queue))

FinalizeUnitDrainStep(g) ==
  FinalizeUnitDrainNode([g EXCEPT !.queue = Tail(g.queue)], Head(g.queue))

\* The reclaiming loop without its call of cgraph_remove_node.
FinalizeUnitSweepStep_no_remove(g, n) ==
  Then(IF g.node[n].finalized /\ ~g.tree[n].has_body
       THEN cgraph_reset_node(g, n) ELSE g, LAMBDA g1 :
    IF ~g1.node[n].reachable /\ g1.tree[n].has_body
    THEN g1
    ELSE IF g1.node[n].finalized /\ ~g1.tree[n].has_body
    THEN Fail(g1, "finalize_compilation_unit: !finalized || DECL_SAVED_TREE")
    ELSE IF g1.node[n].analyzed # g1.node[n].finalized
    THEN Fail(g1, "finalize_compilation_unit: analyzed == finalized")
    ELSE g1)

\* One iteration of the reclaiming loop of cgraph_finalize_compilation_unit.
FinalizeUnitSweepStep(g, n) ==
  Then(IF g.node[n].finalized /\ ~g.tree[n].has_body
       THEN cgraph_reset_node(g, n) ELSE g, LAMBDA g1 :
    IF ~g1.node[n].reachable /\ g1.tree[n].has_body
    THEN cgraph_remove_node(g1, n)
    ELSE IF g1.node[n].finalized /\ ~g1.tree[n].has_body
    THEN Fail(g1, "finalize_compilation_unit: !finalized || DECL_SAVED_TREE")
    ELSE IF g1.node[n].analyzed # g1.node[n].finalized
    THEN Fail(g1, "finalize_compilation_unit: analyzed == finalized")
    ELSE g1)

\* The nodes the reclaiming loop visits: from cgraph_nodes up to, and not
\* including, first_analyzed.
NodesBefore(nodes, stop) ==
  IF InSeq(stop, nodes) THEN SubSeq(nodes, 1, IndexOf(nodes, stop) - 1)
  ELSE nodes

\* The worklist loop of cgraph_finalize_compilation_unit, to its end.
RECURSIVE FinalizeUnitDrain(_)
FinalizeUnitDrain(g) ==
  IF g.fail # "" \/ g.queue = <<>> THEN g
  ELSE FinalizeUnitDrain(FinalizeUnitDrainStep(g))

\* The reclaiming loop of cgraph_finalize_compilation_unit over the nodes todo.
RECURSIVE FinalizeUnitSweep(_, _)
FinalizeUnitSweep(g, todo) ==
  IF g.fail # "" \/ todo = <<>> THEN g
  ELSE FinalizeUnitSweep(FinalizeUnitSweepStep(g, Head(todo)), Tail(todo))

\* cgraph_finalize_compilation_unit () as one function of the graph, first
\* being first_analyzed.
cgraph_finalize_compilation_unit(g, first) ==
  IF ~g.uaat THEN cgraph_assemble_pending_functions(g)[1]
  ELSE Then(cgraph_varpool_analyze_pending_decls(g), LAMBDA g1 :
       Then(FinalizeUnitDrain(g1), LAMBDA g2 :
         FinalizeUnitSweep(g2, NodesBefore(g2.nodes, first))))

\* cgraph_function_and_variable_visibility (), the loop over the functions.
VisibleNode(g, n) ==
  g.node[n].externally_visible
  \/ (g.node[n].reachable
      /\ (g.tree[n].comdat
          \/ (~g.whole /\ g.tree[n].public /\ ~g.tree[n].external)))

\* The loop clearing TREE_PUBLIC only where it is clear already.
MadeLocal_static_only(g, n) ==
  ~VisibleNode(g, n) /\ g.node[n].analyzed /\ ~g.tree[n].external
  /\ ~g.tree[n].public

MadeLocal(g, n) ==
  ~VisibleNode(g, n) /\ g.node[n].analyzed /\ ~g.tree[n].external

FunctionVisibility(g) ==
  LET live == SeqToSet(g.nodes)
  IN IF \E n \in live : MadeLocal(g, n) /\ ~g.whole /\ g.tree[n].public
     THEN Fail(g, "visibility: flag_whole_program || !TREE_PUBLIC (node->decl)")
     ELSE [g EXCEPT
             !.node = [n \in DOMAIN g.node |->
                IF n \in live
                THEN [g.node[n] EXCEPT
                        !.externally_visible = VisibleNode(g, n),
                        !.local = ~g.node[n].needed /\ g.node[n].analyzed
                                  /\ ~g.tree[n].external /\ ~VisibleNode(g, n)]
                ELSE g.node[n]],
             !.tree = [n \in DOMAIN g.tree |->
                IF n \in live /\ MadeLocal(g, n)
                THEN [g.tree[n] EXCEPT !.public = FALSE]
                ELSE g.tree[n]]]

\* cgraph_function_and_variable_visibility (), the loop over the variables.
VisibleVar(g, v) ==
  g.vnode[v].externally_visible
  \/ (g.vnode[v].needed /\ ~g.whole /\ g.vtree[v].public)

VariableVisibility(g) ==
  LET queued == SeqToSet(g.vqueue)
  IN IF \E v \in queued : ~VisibleVar(g, v) /\ ~g.whole /\ g.vtree[v].public
     THEN Fail(g, "visibility: flag_whole_program || !TREE_PUBLIC (vnode->decl)")
     ELSE [g EXCEPT
             !.vnode = [v \in DOMAIN g.vnode |->
                IF v \in queued
                THEN [g.vnode[v] EXCEPT !.externally_visible = VisibleVar(g, v)]
                ELSE g.vnode[v]],
             !.vtree = [v \in DOMAIN g.vtree |->
                IF v \in queued /\ ~VisibleVar(g, v)
                THEN [g.vtree[v] EXCEPT !.public = FALSE]
                ELSE g.vtree[v]]]

\* cgraph_remove_unreachable_nodes (before_inlining_p, file) of ipa.c: the
\* nodes reached from the needed ones stay; of the others, an analyzed
\* extern inline function that is still called is turned into a plain
\* declaration and every other node is removed.
RECURSIVE ReachedFrom(_, _, _)
ReachedFrom(g, S, before) ==
  LET more == {g.edges[i].callee : i \in
                 {j \in 1..Len(g.edges) :
                    /\ g.edges[j].caller \in S
                    /\ g.node[g.edges[j].caller].analyzed
                    /\ \/ g.edges[j].inline_failed = ""
                       \/ ~g.node[g.edges[j].callee].analyzed
                       \/ ~g.tree[g.edges[j].callee].external
                       \/ before}}
  IN IF more \subseteq S THEN S ELSE ReachedFrom(g, S \cup more, before)

RECURSIVE RemoveUnreached(_, _, _, _)
RemoveUnreached(g, todo, S, before) ==
  IF todo = <<>> THEN g
  ELSE
    LET n == Head(todo)
        g1 == [g EXCEPT !.node[n].inlined_to = NULL]
        called == \E i \in 1..Len(g1.edges) :
                    g1.edges[i].callee = n /\ g1.edges[i].caller \in S
        g2 == IF n \in S THEN g
              ELSE IF ~g1.node[n].analyzed \/ ~g1.tree[n].external \/ before
              THEN cgraph_remove_node(g1, n)
              ELSE IF called \/ g1.node[n].needed
              THEN cgraph_node_remove_callees(
                     [g1 EXCEPT !.tree[n].has_body = FALSE,
                                !.tree[n].body = <<>>,
                                !.node[n].analyzed = FALSE], n)
              ELSE cgraph_remove_node(g1, n)
    IN RemoveUnreached(g2, Tail(todo), S, before)

cgraph_remove_unreachable_nodes(g, before) ==
  LET roots == {n \in SeqToSet(g.nodes) :
                  /\ g.node[n].needed
                  /\ g.node[n].inlined_to = NULL
                  /\ (~g.tree[n].external \/ ~g.node[n].analyzed \/ before)}
  IN RemoveUnreached(g, g.nodes, ReachedFrom(g, roots, before), before)

\* cgraph_function_and_variable_visibility ().
cgraph_function_and_variable_visibility(g) ==
  Then(FunctionVisibility(g), LAMBDA g1 :
  Then(VariableVisibility(g1), LAMBDA g2 :
    cgraph_remove_unreachable_nodes([g2 EXCEPT !.flags_ready = TRUE], TRUE)))

\* The inliner (ipa-inline.c) marking call edge i inlined: the callee, whose
\* only caller this is, becomes part of the function its caller is inlined to.
InlineRoot(g, n) ==
  IF g.node[n].inlined_to # NULL THEN g.node[n].inlined_to ELSE n

CanInline(g, i) ==
  LET e == g.edges[i]
  IN /\ e.inline_failed # ""
     /\ e.callee # e.caller
     /\ InlineRoot(g, e.caller) # e.callee
     /\ g.node[e.caller].analyzed
     /\ g.node[e.callee].analyzed
     /\ g.tree[e.callee].has_body
     /\ g.node[e.callee].inlinable
     /\ ~g.node[e.callee].redefined_extern_inline
     /\ g.node[e.callee].inlined_to = NULL
     /\ (~g.node[e.callee].needed \/ g.tree[e.callee].external)
     /\ \A j \in 1..Len(g.edges) : g.edges[j].callee = e.callee => j = i

cgraph_mark_inline_edge(g, i) ==
  LET e == g.edges[i]
      root == InlineRoot(g, e.caller)
  IN [g EXCEPT !.edges[i].inline_failed = "",
               !.node = [n \in DOMAIN g.node |->
                  IF n = e.callee \/ g.node[n].inlined_to = e.callee
                  THEN [g.node[n] EXCEPT !.inlined_to = root]
                  ELSE g.node[n]]]

\* The test of cgraph_mark_functions_to_output without
\* "!node->global.inlined_to".
WantsOutput_inlined_too(g, n) ==
  /\ g.tree[n].has_body
  /\ \/ g.node[n].needed
     \/ /\ g.node[n].reachable
        /\ \E i \in 1..Len(g.edges) :
              g.edges[i].callee = n /\ g.edges[i].inline_failed # ""
  /\ ~g.tree[n].asm_written
  /\ ~g.tree[n].external

\* cgraph_mark_functions_to_output ().
WantsOutput(g, n) ==
  /\ g.tree[n].has_body
  /\ g.node[n].inlined_to = NULL
  /\ \/ g.node[n].needed
     \/ /\ g.node[n].reachable
        /\ \E i \in 1..Len(g.edges) :
              g.edges[i].callee = n /\ g.edges[i].inline_failed # ""
  /\ ~g.tree[n].asm_written
  /\ ~g.tree[n].external

cgraph_mark_functions_to_output(g) ==
  LET live == SeqToSet(g.nodes)
  IN IF \E n \in live : g.node[n].output
     THEN Fail(g, "mark_functions_to_output: !node->output")
     ELSE IF \E n \in live :
               /\ ~WantsOutput(g, n)
               /\ g.node[n].inlined_to = NULL
               /\ g.tree[n].has_body
               /\ ~g.tree[n].external
     THEN Fail(g, "mark_functions_to_output: failed to reclaim unneeded function")
     ELSE [g EXCEPT !.node = [n \in DOMAIN g.node |->
                       IF n \in live /\ WantsOutput(g, n)
                       THEN [g.node[n] EXCEPT !.output = TRUE]
                       ELSE g.node[n]]]

\* cgraph_postorder (order) of ipa.c: a depth-first walk along the caller
\* edges that stores a node once all the callers reached from it are stored.
Callers(g, n) ==
  LET es == SelectSeq(g.edges, LAMBDA e : e.callee = n)
  IN [i \in 1..Len(es) |-> es[i].caller]

RECURSIVE PostorderVisit(_, _, _)
RECURSIVE PostorderEach(_, _, _)
PostorderVisit(g, n, st) ==
  LET st1 == [st EXCEPT !.seen = st.seen \cup {n}]
      st2 == PostorderEach(g, Callers(g, n), st1)
  IN [st2 EXCEPT !.order = Append(st2.order, n)]

PostorderEach(g, ns, st) ==
  IF ns = <<>> THEN st
  ELSE IF Head(ns) \in st.seen THEN PostorderEach(g, Tail(ns), st)
  ELSE PostorderEach(g, Tail(ns), PostorderVisit(g, Head(ns), st))

cgraph_postorder(g) ==
  PostorderEach(g, g.nodes, [seen |-> {}, order |-> <<>>]).order

\* cgraph_expand_all_functions (): the order array it expands from, back to
\* front.
ExpandOrder(g) ==
  SelectSeq(cgraph_postorder(g), LAMBDA n : g.node[n].output)

\* The expansion loop without "node->output = 0".
ExpandStep_keep_output(g, n) ==
  IF ~g.node[n].output THEN g
  ELSE IF ~g.node[n].reachable
  THEN Fail(g, "expand_all_functions: node->reachable")
  ELSE cgraph_expand_function(g, n)

\* cgraph_expand_all_functions (), one iteration of the expansion loop, on
\* the last node of the order array.
ExpandStep(g, n) ==
  IF ~g.node[n].output THEN g
  ELSE IF ~g.node[n].reachable
  THEN Fail(g, "expand_all_functions: node->reachable")
  ELSE cgraph_expand_function([g EXCEPT !.node[n].output = FALSE], n)

\* decide_is_variable_needed (node, decl) of cgraph.c.
decide_is_variable_needed(g, v) ==
  \/ g.vnode[v].externally_visible
  \/ g.vtree[v].referenced
  \/ g.vnode[v].needed
  \/ (g.vtree[v].public /\ ~g.whole)

\* cgraph_varpool_assemble_pending_decls (): the variables of the queue are
\* written out, unless an error or a sorry has been reported.
RECURSIVE AssembleVars(_)
AssembleVars(g) ==
  IF g.vqueue = <<>> THEN g
  ELSE LET v == Head(g.vqueue)
           g1 == [g EXCEPT !.vqueue = Tail(g.vqueue)]
       IN AssembleVars(IF ~g1.vtree[v].asm_written
                       THEN [g1 EXCEPT !.vtree[v].asm_written = TRUE]
                       ELSE g1)

\* cgraph_varpool_assemble_pending_decls skipping the test of errorcount and
\* sorrycount.
cgraph_varpool_assemble_pending_decls_despite_errors(g) ==
  Then(cgraph_varpool_analyze_pending_decls(g), LAMBDA g1 : AssembleVars(g1))

cgraph_varpool_assemble_pending_decls(g) ==
  IF g.errorcount # 0 \/ g.sorrycount # 0 THEN g
  ELSE Then(cgraph_varpool_analyze_pending_decls(g), LAMBDA g1 : AssembleVars(g1))

\* The value cgraph_varpool_assemble_pending_decls returns: whether it
\* assembled a variable.
cgraph_varpool_assemble_pending_decls_changed(g) ==
  /\ ~(g.errorcount # 0 \/ g.sorrycount # 0)
  /\ \E i \in 1..Len(cgraph_varpool_analyze_pending_decls(g).vqueue) :
        ~g.vtree[cgraph_varpool_analyze_pending_decls(g).vqueue[i]].asm_written

\* cgraph_varpool_remove_unreferenced_decls ().
RECURSIVE RemarkVars(_, _)
RemarkVars(g, old) ==
  IF old = <<>> THEN g
  ELSE LET v == Head(old)
           g1 == [g EXCEPT !.vnode[v].needed = FALSE]
           g2 == IF g1.vnode[v].finalized
                    /\ (g1.vtree[v].referenced \/ decide_is_variable_needed(g1, v))
                 THEN cgraph_varpool_mark_needed_node(g1, v) ELSE g1
       IN RemarkVars(g2, Tail(old))

cgraph_varpool_remove_unreferenced_decls(g) ==
  IF g.errorcount # 0 \/ g.sorrycount # 0
  THEN [g EXCEPT !.vqueue = <<>>, !.vunan = <<>>]
  ELSE cgraph_varpool_analyze_pending_decls(
         RemarkVars([g EXCEPT !.vqueue = <<>>, !.vunan = <<>>], g.vqueue))

\* cgraph_varpool_finalize_decl (decl) of cgraph.c.
cgraph_varpool_finalize_decl(g, v) ==
  IF g.vnode[v].finalized
  THEN IF g.ready \/ ~g.uaat THEN cgraph_varpool_assemble_pending_decls(g) ELSE g
  ELSE
    Bind(IF g.vnode[v].needed
         THEN cgraph_varpool_enqueue_needed_node(g, v) ELSE g, LAMBDA g1 :
    Bind([g1 EXCEPT !.vnode[v].finalized = TRUE], LAMBDA g2 :
    Bind(IF decide_is_variable_needed(g2, v) \/ g2.vtree[v].public
         THEN cgraph_varpool_mark_needed_node(g2, v) ELSE g2, LAMBDA g3 :
      IF g3.ready \/ ~g3.uaat
      THEN cgraph_varpool_assemble_pending_decls(g3) ELSE g3)))

\* ----------------------------------------------------------- the verifier
\* error (msg): a diagnostic.  Every call of it in verify_cgraph_node but
\* the one for an edge to the wrong declaration also sets error_found.
error(g, msg) ==
  [g EXCEPT !.errors = Append(g.errors, msg), !.errorcount = g.errorcount + 1]
flag_error(g, msg) == [error(g, msg) EXCEPT !.error_found = TRUE]

\* node->callees and node->callers as sequences of edge indices.  Both lists
\* are linked at the head, so the newest edge comes first.
RECURSIVE EdgesWhere(_, _, _, _)
EdgesWhere(g, n, callees, i) ==
  IF i = 0 THEN <<>>
  ELSE IF (IF callees THEN g.edges[i].caller ELSE g.edges[i].callee) = n
       THEN <<i>> \o EdgesWhere(g, n, callees, i - 1)
       ELSE EdgesWhere(g, n, callees, i - 1)

CalleeEdges(g, n) == EdgesWhere(g, n, TRUE, Len(g.edges))
CallerEdges(g, n) == EdgesWhere(g, n, FALSE, Len(g.edges))

\* cgraph_edge (node, call_stmt): the first edge of node->callees made for
\* call_stmt, or NULL.
cgraph_edge(g, n, stmt) ==
  LET es == SelectSeq(CalleeEdges(g, n), LAMBDA i : g.edges[i].stmt = stmt)
  IN IF es = <<>> THEN NULL ELSE Head(es)

\* The first loop of verify_cgraph_node: no edge to a callee has aux set.
RECURSIVE VerifyCalleesAux(_, _)
VerifyCalleesAux(g, es) ==
  IF es = <<>> THEN g
  ELSE VerifyCalleesAux(IF g.edges[Head(es)].aux
                        THEN flag_error(g, "aux field set for edge")
                        ELSE g, Tail(es))

\* Its second loop, over the edges from the callers.
RECURSIVE VerifyCallers(_, _, _)
VerifyCallers(g, n, es) ==
  IF es = <<>> THEN g
  ELSE
    Bind(IF g.edges[Head(es)].inline_failed = ""
         THEN Bind(IF g.node[n].inlined_to
                       # InlineRoot(g, g.edges[Head(es)].caller)
                   THEN flag_error(g, "inlined_to pointer is wrong")
                   ELSE g, LAMBDA g1 :
                IF Len(CallerEdges(g1, n)) > 1
                THEN flag_error(g1, "multiple inline callers")
                ELSE g1)
         ELSE IF g.node[n].inlined_to # NULL
              THEN flag_error(g, "inlined_to pointer set for noninline callers")
              ELSE g, LAMBDA g2 :
      VerifyCallers(g2, n, Tail(es)))

\* DECL_SAVED_TREE (node->decl), the body a node and its clones share.
Body(g, n) == g.tree[g.node_decl[n]].body

\* The loop over the clone chain, main_clone = main_clone->next_clone, that
\* looks for the node: the value of main_clone when the loop is left.
RECURSIVE FindClone(_, _, _)
FindClone(g, main_clone, n) ==
  IF main_clone = NULL \/ main_clone = n THEN main_clone
  ELSE FindClone(g, g.next_clone[main_clone], n)

\* The search for the node in the clone chain of its declaration.  The test
\* that follows the loop is if (!node), not if (!main_clone).
VerifyCloneChain(g, n) ==
  LET main_clone == FindClone(g, g.node_decl[n], n)
  IN IF n = NULL
     THEN flag_error(g, "node not found in DECL_ASSEMBLER_NAME hash")
     ELSE g

\* The walk over the statements of the body, from statement i: the edge of
\* each call is looked up and ticked off in its aux field.
RECURSIVE VerifyStatements(_, _, _)
VerifyStatements(g, n, i) ==
  IF i > Len(Body(g, n)) THEN g
  ELSE IF Body(g, n)[i].kind # "call" THEN VerifyStatements(g, n, i + 1)
  ELSE IF cgraph_edge(g, n, i) = NULL
  THEN VerifyStatements(
         flag_error(g, "missing callgraph edge for call stmt:"), n, i + 1)
  ELSE
    Bind(IF g.edges[cgraph_edge(g, n, i)].aux
         THEN flag_error(g, "shared call_stmt:") ELSE g, LAMBDA g1 :
    Bind(IF g1.node_decl[g1.edges[cgraph_edge(g1, n, i)].callee] # Body(g1, n)[i].d
         THEN error(cgraph_node(g1, Body(g1, n)[i].d),
                    "edge points to wrong declaration:")
         ELSE cgraph_node(g1, Body(g1, n)[i].d), LAMBDA g2 :
      VerifyStatements(
        [g2 EXCEPT !.edges[cgraph_edge(g2, n, i)].aux = TRUE], n, i + 1)))

\* The last loop: every edge to a callee was ticked off, and its aux field
\* is cleared.
RECURSIVE VerifyCalleesTicked(_, _)
VerifyCalleesTicked(g, es) ==
  IF es = <<>> THEN g
  ELSE
    Bind(IF ~g.edges[Head(es)].aux
         THEN flag_error(g, "edge has no corresponding call_stmt")
         ELSE g, LAMBDA g1 :
      VerifyCalleesTicked([g1 EXCEPT !.edges[Head(es)].aux = FALSE], Tail(es)))

\* The same loop without e->aux = 0.
VerifyBody_keep_aux(g, n) ==
  IF /\ g.node[n].analyzed
     /\ g.tree[g.node_decl[n]].has_body /\ ~g.tree[g.node_decl[n]].asm_written
     /\ (~g.tree[g.node_decl[n]].external \/ g.node[n].inlined_to # NULL)
  THEN IF g.node[n].lowered
       THEN VerifyStatements(g, n, 1)
       ELSE Fail(g, "verify_cgraph_node: gcc_unreachable")
  ELSE g

\* The part of verify_cgraph_node that compares the body with the edges.
VerifyBody(g, n) ==
  IF /\ g.node[n].analyzed
     /\ g.tree[g.node_decl[n]].has_body /\ ~g.tree[g.node_decl[n]].asm_written
     /\ (~g.tree[g.node_decl[n]].external \/ g.node[n].inlined_to # NULL)
  THEN IF g.node[n].lowered
       THEN Bind(VerifyStatements(g, n, 1), LAMBDA g1 :
              VerifyCalleesTicked(g1, CalleeEdges(g1, n)))
       ELSE Fail(g, "verify_cgraph_node: gcc_unreachable")
  ELSE g

\* verify_cgraph_node (node).
verify_cgraph_node(g, n) ==
  Bind(VerifyCalleesAux([g EXCEPT !.error_found = FALSE], CalleeEdges(g, n)),
       LAMBDA g1 :
  Bind(VerifyCallers(g1, n, CallerEdges(g1, n)), LAMBDA g2 :
  Bind(IF CallerEdges(g2, n) = <<>> /\ g2.node[n].inlined_to # NULL
       THEN flag_error(g2, "inlined_to pointer is set but no predecesors found")
       ELSE g2, LAMBDA g3 :
  Bind(IF g3.node[n].inlined_to = n
       THEN flag_error(g3, "inlined_to pointer refers to itself")
       ELSE g3, LAMBDA g4 :
  Bind(VerifyCloneChain(cgraph_node(g4, g4.node_decl[n]), n), LAMBDA g5 :
  Then(VerifyBody(g5, n), LAMBDA g6 :
    IF g6.error_found
    THEN Fail(g6, "internal_error: verify_cgraph_node failed")
    ELSE g6))))))

\* The loop of verify_cgraph over cgraph_nodes; an internal error ends it.
RECURSIVE VerifyEach(_, _)
VerifyEach(g, ns) ==
  IF ns = <<>> \/ g.fail # "" THEN g
  ELSE VerifyEach(verify_cgraph_node(g, Head(ns)), Tail(ns))

\* verify_cgraph ().
verify_cgraph(g) ==
  IF g.sorrycount # 0 \/ g.errorcount # 0 THEN g ELSE VerifyEach(g, g.nodes)

\* The last check of cgraph_optimize: every inline clone is gone and every
\* function body has been released.
ReleasedMemorySweep(g) ==
  IF g.uaat /\ ~g.dump /\ ~(g.sorrycount # 0 \/ g.errorcount # 0)
  THEN IF \E n \in SeqToSet(g.nodes) :
            /\ g.node[n].analyzed
            /\ g.node[n].inlined_to # NULL \/ g.tree[g.node_decl[n]].has_body
       THEN Fail(g, "internal_error: nodes with no released memory found")
       ELSE g
  ELSE g

\* ------------------------------------------------------------ the machine
\* Storing a graph value back into the variables; an assertion failure
\* aborts the compiler where it stands.
Store(graph, nextpc, call) ==
  \E g \in {graph} :
  IF g.fail # ""
  THEN /\ pc' = "abort"
       /\ failure' = g.fail
       /\ last_call' = last_call
       /\ UNCHANGED <<node, cgraph_nodes, cgraph_nodes_queue, edges, tree,
                      vtree, vnode, varpool_queue, varpool_unanalyzed, trace,
                      cgraph_function_flags_ready, last_decl, last_nested,
                      diagnostics, errorcount, ggc>>
  ELSE /\ pc' = nextpc
       /\ failure' = failure
       /\ last_call' = call
       /\ last_decl' = g.decl
       /\ last_nested' = g.nested
       /\ diagnostics' = g.errors
       /\ errorcount' = g.errorcount
       /\ ggc' = g.gc
       /\ node' = g.node
       /\ cgraph_nodes' = g.nodes
       /\ cgraph_nodes_queue' = g.queue
       /\ edges' = g.edges
       /\ tree' = g.tree
       /\ vtree' = g.vtree
       /\ vnode' = g.vnode
       /\ varpool_queue' = g.vqueue
       /\ varpool_unanalyzed' = g.vunan
       /\ trace' = g.trace
       /\ cgraph_function_flags_ready' = g.flags_ready

UnknownDecl ==
  [public |-> TRUE, asm_written |-> FALSE, comdat |-> FALSE, main |-> FALSE,
   used |-> FALSE, external |-> TRUE, asm_referenced |-> FALSE,
   decl_inline |-> FALSE, cdtor |-> "", has_body |-> FALSE, body |-> <<>>]

\* init_cgraph, and the options and the diagnostics counters of the
\* compilation: an error or a sorry may have been reported before the first
\* call, or the tree dumps may be enabled; one of the three at most, then
\* with constructor sections and without -fwhole-program.  The program never
\* makes an inline clone of its own: every node is the one interned for its
\* declaration.
Init ==
  /\ flag_unit_at_a_time \in BOOLEAN
  /\ flag_whole_program \in {b \in BOOLEAN : b => flag_unit_at_a_time}
  /\ have_ctors_dtors \in BOOLEAN
  /\ node = [d \in Decls |-> NewNode]
  /\ cgraph_nodes = <<>>
  /\ cgraph_nodes_queue = <<>>
  /\ edges = <<>>
  /\ tree = [d \in Decls |-> UnknownDecl]
  /\ vtree = [v \in Vars |-> NewVarTree]
  /\ vnode = [v \in Vars |-> NewVarNode]
  /\ varpool_queue = <<>>
  /\ varpool_unanalyzed = <<>>
  /\ first_analyzed = NULL
  /\ cgraph_global_info_ready = FALSE
  /\ cgraph_function_flags_ready = FALSE
  /\ counter = 0
  /\ trace = <<>>
  /\ pc = "idle"
  /\ work = <<>>
  /\ failure = ""
  /\ last_call = ""
  /\ last_decl = NULL
  /\ last_nested = FALSE
  /\ diagnostics = <<>>
  /\ errorcount \in {0, 1}
  /\ sorrycount \in {0, 1}
  /\ dump_tree_all \in BOOLEAN
  /\ (errorcount # 0 \/ sorrycount # 0 \/ dump_tree_all) =>
        /\ errorcount + sorrycount + (IF dump_tree_all THEN 1 ELSE 0) = 1
        /\ have_ctors_dtors /\ ~flag_whole_program
  /\ node_decl = [n \in Decls |-> n]
  /\ next_clone = [n \in Decls |-> NULL]
  /\ ggc = NoCollection
  /\ nevents = 0
  /\ nunits = 0

\* The front-end finalizes function d with flags k and body b.
FinalizeFunction(d, k, b, nested) ==
  /\ pc = "idle"
  /\ nevents < MaxEvents
  /\ nevents' = nevents + 1
  /\ LET t == [NewTree(k) EXCEPT !.has_body = TRUE, !.body = b,
                                 !.asm_written = tree[d].asm_written]
         g == [G EXCEPT !.tree[d] = t, !.decl = d, !.nested = nested]
     IN Store(cgraph_finalize_function(g, d, nested), "idle", "finalize_function")
  /\ UNCHANGED <<flag_unit_at_a_time, flag_whole_program, have_ctors_dtors,
                 sorrycount, dump_tree_all, node_decl, next_clone,
                 first_analyzed, cgraph_global_info_ready, counter, work, nunits>>

\* The front-end reports function d used (cgraph_mark_needed_node).
MarkNeeded(d) ==
  /\ pc = "idle"
  /\ nevents < MaxEvents
  /\ nevents' = nevents + 1
  /\ Store(cgraph_mark_needed_node(cgraph_node([G EXCEPT !.decl = d], d), d),
           "idle", "mark_needed_node")
  /\ UNCHANGED <<flag_unit_at_a_time, flag_whole_program, have_ctors_dtors,
                 sorrycount, dump_tree_all, node_decl, next_clone,
                 first_analyzed, cgraph_global_info_ready, counter, work,
                 nunits>>

\* cgraph_finalize_compilation_unit (), up to its worklist loop.  When not
\* doing unit-at-a-time it assembles the pending functions and returns.  The
\* front-end calls it before cgraph_optimize.
FinalizeUnit_Begin ==
  /\ pc = "idle"
  /\ ~cgraph_global_info_ready
  /\ nunits < MaxUnits
  /\ nunits' = nunits + 1
  /\ IF ~flag_unit_at_a_time
     THEN Store(cgraph_assemble_pending_functions(G)[1], "idle",
                "finalize_compilation_unit")
     ELSE Store(cgraph_varpool_analyze_pending_decls(G), "fcu_drain", last_call)
  /\ UNCHANGED <<flag_unit_at_a_time, flag_whole_program, have_ctors_dtors,
                 sorrycount, dump_tree_all, node_decl, next_clone,
                 first_analyzed, cgraph_global_info_ready, counter, work,
                 nevents>>

\* cgraph_finalize_compilation_unit (), one iteration of the worklist loop.
FinalizeUnit_Drain ==
  /\ pc = "fcu_drain"
  /\ cgraph_nodes_queue # <<>>
  /\ Store(FinalizeUnitDrainStep(G), "fcu_drain", last_call)
  /\ UNCHANGED <<flag_unit_at_a_time, flag_whole_program, have_ctors_dtors,
                 sorrycount, dump_tree_all, node_decl, next_clone,
                 first_analyzed, cgraph_global_info_ready, counter, work,
                 nevents, nunits>>

\* cgraph_finalize_compilation_unit (), entering the reclaiming loop.
FinalizeUnit_Drained ==
  /\ pc = "fcu_drain"
  /\ cgraph_nodes_queue = <<>>
  /\ pc' = "fcu_sweep"
  /\ work' = NodesBefore(cgraph_nodes, first_analyzed)
  /\ UNCHANGED <<last_decl, last_nested, diagnostics, errorcount, ggc, sorrycount,
                 dump_tree_all, node_decl, next_clone,
                 flag_unit_at_a_time, flag_whole_program, have_ctors_dtors,
                 node, cgraph_nodes, cgraph_nodes_queue, edges, tree, vtree,
                 vnode, varpool_queue, varpool_unanalyzed, first_analyzed,
                 cgraph_global_info_ready, cgraph_function_flags_ready,
                 counter, trace, failure, last_call, nevents, nunits>>

\* cgraph_finalize_compilation_unit (), one iteration of the reclaiming loop.
FinalizeUnit_Sweep ==
  /\ pc = "fcu_sweep"
  /\ work # <<>>
  /\ work' = Tail(work)
  /\ Store(FinalizeUnitSweepStep(G, Head(work)), "fcu_sweep", last_call)
  /\ UNCHANGED <<flag_unit_at_a_time, flag_whole_program, have_ctors_dtors,
                 sorrycount, dump_tree_all, node_decl, next_clone,
                 first_analyzed, cgraph_global_info_ready, counter,
                 nevents, nunits>>

\* cgraph_finalize_compilation_unit (), its return.
FinalizeUnit_Return ==
  /\ pc = "fcu_sweep"
  /\ work = <<>>
  /\ pc' = "idle"
  /\ last_call' = "finalize_compilation_unit"
  /\ first_analyzed' = IF cgraph_nodes = <<>> THEN NULL ELSE Head(cgraph_nodes)
  /\ ggc' = Collection(cgraph_nodes_queue, trace)
  /\ UNCHANGED <<last_decl, last_nested, diagnostics, errorcount, sorrycount,
                 dump_tree_all, node_decl, next_clone,
                 flag_unit_at_a_time, flag_whole_program, have_ctors_dtors,
                 node, cgraph_nodes, cgraph_nodes_queue, edges, tree, vtree,
                 vnode, varpool_queue, varpool_unanalyzed,
                 cgraph_global_info_ready, cgraph_function_flags_ready,
                 counter, trace, work, failure, nevents, nunits>>

\* cgraph_optimize (), up to ipa_passes.  When not doing unit-at-a-time it
\* assembles the pending variables and returns.
Optimize_Begin ==
  /\ pc = "idle"
  /\ ~cgraph_global_info_ready
  /\ last_call # "optimize"
  /\ IF ~flag_unit_at_a_time
     THEN Store(Then(verify_cgraph(G), LAMBDA g :
                  cgraph_varpool_assemble_pending_decls(g)), "idle", "optimize")
     ELSE Store(Then(verify_cgraph(G), LAMBDA g :
                  cgraph_function_and_variable_visibility(
                    cgraph_varpool_analyze_pending_decls(g))),
                "opt_ipa", last_call)
  /\ UNCHANGED <<flag_unit_at_a_time, flag_whole_program, have_ctors_dtors,
                 sorrycount, dump_tree_all, node_decl, next_clone,
                 first_analyzed, cgraph_global_info_ready, counter, work,
                 nevents, nunits>>

\* ipa_passes (): the inliner decides to inline call edge i.
Optimize_Inline(i) ==
  /\ pc = "opt_ipa"
  /\ i \in 1..Len(edges)
  /\ CanInline(G, i)
  /\ Store(cgraph_mark_inline_edge(G, i), "opt_ipa", last_call)
  /\ UNCHANGED <<flag_unit_at_a_time, flag_whole_program, have_ctors_dtors,
                 sorrycount, dump_tree_all, node_decl, next_clone,
                 first_analyzed, cgraph_global_info_ready, counter, work,
                 nevents, nunits>>

\* cgraph_optimize (), from the end of ipa_passes to cgraph_global_info_ready.
Optimize_Ready ==
  /\ pc = "opt_ipa"
  /\ cgraph_global_info_ready' = TRUE
  /\ Store(cgraph_remove_unreachable_nodes(G, FALSE), "opt_mark", last_call)
  /\ UNCHANGED <<flag_unit_at_a_time, flag_whole_program, have_ctors_dtors,
                 sorrycount, dump_tree_all, node_decl, next_clone,
                 first_analyzed, counter, work, nevents, nunits>>

\* cgraph_optimize (): cgraph_mark_functions_to_output and the start of
\* cgraph_expand_all_functions, which fills the order array.
Optimize_Mark ==
  /\ pc = "opt_mark"
  /\ \E g \in {Then(verify_cgraph(G), LAMBDA g0 :
                     cgraph_mark_functions_to_output(g0))} :
       /\ work' = IF g.fail # "" THEN work ELSE ExpandOrder(g)
       /\ Store(g, "opt_expand", last_call)
  /\ UNCHANGED <<flag_unit_at_a_time, flag_whole_program, have_ctors_dtors,
                 sorrycount, dump_tree_all, node_decl, next_clone,
                 first_analyzed, cgraph_global_info_ready, counter,
                 nevents, nunits>>

\* The expansion loop walking the order array front to back.
Optimize_Expand_forward ==
  /\ pc = "opt_expand"
  /\ work # <<>>
  /\ work' = Tail(work)
  /\ Store(ExpandStep(G, Head(work)), "opt_expand", last_call)
  /\ UNCHANGED <<flag_unit_at_a_time, flag_whole_program, have_ctors_dtors,
                 sorrycount, dump_tree_all, node_decl, next_clone,
                 first_analyzed, cgraph_global_info_ready, counter,
                 nevents, nunits>>

\* cgraph_expand_all_functions (), one iteration of its expansion loop.
Optimize_Expand ==
  /\ pc = "opt_expand"
  /\ work # <<>>
  /\ work' = SubSeq(work, 1, Len(work) - 1)
  /\ Store(ExpandStep(G, work[Len(work)]), "opt_expand", last_call)
  /\ UNCHANGED <<flag_unit_at_a_time, flag_whole_program, have_ctors_dtors,
                 sorrycount, dump_tree_all, node_decl, next_clone,
                 first_analyzed, cgraph_global_info_ready, counter,
                 nevents, nunits>>

\* cgraph_optimize (), after cgraph_expand_all_functions, to its return.
Optimize_Return ==
  /\ pc = "opt_expand"
  /\ work = <<>>
  /\ Store(Then(cgraph_varpool_assemble_pending_decls(
                  cgraph_varpool_remove_unreferenced_decls(G)), LAMBDA g1 :
             Then(verify_cgraph(g1), LAMBDA g2 : ReleasedMemorySweep(g2))),
           "idle", "optimize")
  /\ UNCHANGED <<flag_unit_at_a_time, flag_whole_program, have_ctors_dtors,
                 sorrycount, dump_tree_all, node_decl, next_clone,
                 first_analyzed, cgraph_global_info_ready, counter, work,
                 nevents, nunits>>

\* cgraph_build_static_cdtor always going through cgraph_finalize_function.
BuildStaticCdtor_always_finalize(which, b) ==
  /\ pc = "idle"
  /\ nevents < MaxEvents
  /\ nevents' = nevents + 1
  /\ counter < MaxCdtor
  /\ counter' = counter + 1
  /\ LET d == NDecl + counter + 1
         t == [UnknownDecl EXCEPT
                 !.public = ~have_ctors_dtors, !.external = FALSE,
                 !.cdtor = which, !.has_body = TRUE, !.body = b]
         g == [G EXCEPT !.tree[d] = t, !.decl = d]
     IN IF which \notin {"I", "D"}
        THEN Store(Fail(g, "build_static_cdtor: gcc_unreachable"), "idle", last_call)
        ELSE Store(cgraph_finalize_function(g, d, FALSE), "idle",
                   "build_static_cdtor")
  /\ UNCHANGED <<flag_unit_at_a_time, flag_whole_program, have_ctors_dtors,
                 sorrycount, dump_tree_all, node_decl, next_clone,
                 first_analyzed, cgraph_global_info_ready, work,
                 nunits>>

\* cgraph_build_static_cdtor (which, body, priority).
BuildStaticCdtor(which, b) ==
  /\ pc = "idle"
  /\ nevents < MaxEvents
  /\ nevents' = nevents + 1
  /\ counter < MaxCdtor
  /\ counter' = counter + 1
  /\ LET d == NDecl + counter + 1
         t == [UnknownDecl EXCEPT
                 !.public = ~have_ctors_dtors, !.external = FALSE,
                 !.cdtor = which, !.has_body = TRUE, !.body = b]
         g == [G EXCEPT !.tree[d] = t, !.decl = d]
     IN IF which \notin {"I", "D"}
        THEN Store(Fail(g, "build_static_cdtor: gcc_unreachable"), "idle", last_call)
        ELSE IF cgraph_global_info_ready
        THEN Store([g EXCEPT !.tree[d].asm_written = TRUE,
                             !.trace = Append(g.trace, d)],
                   "idle", "build_static_cdtor")
        ELSE Store(cgraph_finalize_function(g, d, FALSE), "idle",
                   "build_static_cdtor")
  /\ UNCHANGED <<flag_unit_at_a_time, flag_whole_program, have_ctors_dtors,
                 sorrycount, dump_tree_all, node_decl, next_clone,
                 first_analyzed, cgraph_global_info_ready, work,
                 nunits>>

\* A weak alias makes the body of the finalized function d disappear
\* (gcc.c-torture/compile/20011119-1.c).
KillBody(d) ==
  /\ pc = "idle"
  /\ nevents < MaxEvents
  /\ nevents' = nevents + 1
  /\ ~cgraph_global_info_ready
  /\ flag_unit_at_a_time
  /\ node[d].finalized /\ tree[d].has_body /\ tree[d].external
  /\ ~node[d].analyzed
  /\ tree' = [tree EXCEPT ![d].has_body = FALSE, ![d].body = <<>>]
  /\ UNCHANGED <<last_decl, last_nested, diagnostics, errorcount, ggc, sorrycount,
                 dump_tree_all, node_decl, next_clone,
                 flag_unit_at_a_time, flag_whole_program, have_ctors_dtors,
                 node, cgraph_nodes, cgraph_nodes_queue, edges, vtree, vnode,
                 varpool_queue, varpool_unanalyzed, first_analyzed,
                 cgraph_global_info_ready, cgraph_function_flags_ready,
                 counter, trace, pc, work, failure, last_call,
                 nunits>>

\* The front-end finalizes static variable v (cgraph_varpool_finalize_decl);
\* when not doing unit-at-a-time variables do not go through the varpool.
FinalizeVariable(v, pub, init) ==
  /\ pc = "idle"
  /\ nevents < MaxEvents
  /\ nevents' = nevents + 1
  /\ flag_unit_at_a_time
  /\ ~vnode[v].finalized
  /\ LET g == [G EXCEPT !.vtree[v].public = pub, !.vtree[v].init = init]
     IN Store(cgraph_varpool_finalize_decl(g, v), "idle", "finalize_variable")
  /\ UNCHANGED <<flag_unit_at_a_time, flag_whole_program, have_ctors_dtors,
                 sorrycount, dump_tree_all, node_decl, next_clone,
                 first_analyzed, cgraph_global_info_ready, counter, work,
                 nunits>>

\* What the front-end of the model hands over: function d is given one of
\* KindsOf(d) and one of BodiesOf(d); the functions form a ring in which each
\* may call, or take the address of, the next one.
NextDecl(d) == (d % NDecl) + 1

KindsOf(d) ==
  IF d = 1 THEN {K_main, K_static}
  ELSE {K_comdat, K_extern_inline, K_static}

BodiesOf(d) ==
  IF d = 1
  THEN {<<[d |-> NextDecl(d), kind |-> "call"]>>, <<[d |-> 1, kind |-> "var"]>>}
  ELSE {<<>>, <<[d |-> NextDecl(d), kind |-> "call"]>>}

\* The body of a static constructor or destructor calls function 1.
CdtorBodies == {<<[d |-> 1, kind |-> "call"]>>}

\* The initializer of a variable holds the address of the last function.
Inits == {<<[d |-> NDecl, kind |-> "addr"]>>}

\* The functions the front-end may report used, and those whose body a weak
\* alias may kill.
MarkTargets == {d \in UserDecls : d > 1}

Next ==
  \/ \E d \in UserDecls : \E k \in KindsOf(d), b \in BodiesOf(d), nested \in BOOLEAN :
        FinalizeFunction(d, k, b, nested)
  \/ \E d \in MarkTargets : MarkNeeded(d)
  \/ \E d \in UserDecls : KillBody(d)
  \/ \E v \in Vars, pub \in BOOLEAN, init \in Inits : FinalizeVariable(v, pub, init)
  \/ \E which \in {"I", "D", "X"}, b \in CdtorBodies : BuildStaticCdtor(which, b)
  \/ FinalizeUnit_Begin
  \/ FinalizeUnit_Drain
  \/ FinalizeUnit_Drained
  \/ FinalizeUnit_Sweep
  \/ FinalizeUnit_Return
  \/ Optimize_Begin
  \/ \E i \in 1..Len(edges) : Optimize_Inline(i)
  \/ Optimize_Ready
  \/ Optimize_Mark
  \/ Optimize_Expand
  \/ Optimize_Return

Spec == Init /\ [][Next]_vars

\* ------------------------------------- a unit-at-a-time compilation
\* A compilation in unit-at-a-time mode, without errors or dumps.
\* cgraph_finalize_compilation_unit is a function: once called it goes on
\* until it returns or aborts.
UnitInit ==
  /\ Init
  /\ flag_unit_at_a_time
  /\ ~flag_whole_program
  /\ have_ctors_dtors
  /\ errorcount = 0 /\ sorrycount = 0 /\ ~dump_tree_all

FinalizeUnit_Step ==
  FinalizeUnit_Drain \/ FinalizeUnit_Drained \/ FinalizeUnit_Sweep
    \/ FinalizeUnit_Return

SpecUnit == UnitInit /\ [][Next]_vars /\ WF_vars(FinalizeUnit_Step)

\* ------------------------------------------------- the verifier's machine
\* verify_cgraph_node is also handed callgraphs that the passes outside this
\* file have left: edges drawn without regard to the bodies, aux fields that
\* may still be set, inlined_to pointers of any value.
SeqsUpTo(S, n) == UNION {[1..k -> S] : k \in 0..n}

AuxClear(es) == \A i \in 1..Len(es) : ~es[i].aux

VerifyBodies == SeqsUpTo({[d |-> c, kind |-> "call"] : c \in UserDecls}, MaxStmts)

\* Function 1 is the one whose body, CFG and edges are drawn in full; the
\* others are static or extern inline, call it or nothing, and may be inlined
\* into it.
VerifyTrees(d, kinds) ==
  {[NewTree(k) EXCEPT !.has_body = h, !.body = IF h THEN b ELSE <<>>] :
     k \in (IF d = 1 THEN kinds ELSE {K_static, K_extern_inline}),
     h \in BOOLEAN,
     b \in (IF d = 1 THEN VerifyBodies
            ELSE SeqsUpTo({[d |-> 1, kind |-> "call"]}, 1))}

VerifyNodes(d, marks) ==
  {[NewNode EXCEPT !.finalized = a, !.analyzed = a, !.lowered = a /\ l,
                   !.inlined_to = t, !.reachable = m.reachable,
                   !.needed = m.needed] :
     a \in BOOLEAN, l \in (IF d = 1 THEN BOOLEAN ELSE {TRUE}),
     t \in (IF d = 1 THEN {NULL} ELSE {NULL} \cup UserDecls),
     m \in marks}

\* The marks of a node no walk has reached, and those of any node.
Unmarked == {[reachable |-> FALSE, needed |-> FALSE]}
AnyMarks == {m \in [reachable : BOOLEAN, needed : BOOLEAN] :
               m.needed => m.reachable}

VerifyEdges ==
  SeqsUpTo({e \in [caller : UserDecls, callee : UserDecls, stmt : 1..MaxStmts,
                   inline_failed : {"", NOT_CONSIDERED}, aux : BOOLEAN] :
              /\ e.caller # 1 => ~e.aux /\ e.stmt = 1
              /\ e.inline_failed = "" => e.caller = 1 /\ e.callee # 1},
           MaxEdges)

\* The functions of a callgraph as the passes may have left it.  A function
\* other than function 1 may be an inline clone of function 1, linked into
\* its clone chain or not.
DrawnFunctionsOf(kinds, marks) ==
  /\ node_decl \in {[n \in Decls |-> IF n \in c THEN 1 ELSE n] :
                     c \in SUBSET (UserDecls \ {1})}
  /\ next_clone \in {[n \in Decls |-> IF n = 1 THEN x ELSE NULL] :
                      x \in {NULL} \cup {n \in UserDecls : node_decl[n] # n}}
  /\ node \in {[d \in Decls |-> IF d = 1 THEN n1
                                ELSE IF d \in UserDecls THEN n2[d] ELSE NewNode] :
                n1 \in VerifyNodes(1, marks),
                n2 \in [UserDecls \ {1} -> VerifyNodes(NDecl, marks)]}
  /\ tree \in {[d \in Decls |-> IF d = 1 THEN t1
                                ELSE IF d \in UserDecls /\ node_decl[d] = d
                                THEN t2[d] ELSE UnknownDecl] :
                t1 \in VerifyTrees(1, kinds),
                t2 \in [UserDecls \ {1} -> VerifyTrees(NDecl, kinds)]}
  /\ \A d \in UserDecls : node[d].analyzed => tree[node_decl[d]].has_body
  /\ edges \in VerifyEdges
  /\ cgraph_nodes = [i \in 1..NDecl |-> NDecl + 1 - i]

DrawnFunctions == DrawnFunctionsOf({K_static}, Unmarked)

\* Nothing has run yet on the drawn callgraph.
FreshDriver ==
  /\ flag_whole_program = FALSE
  /\ have_ctors_dtors = FALSE
  /\ first_analyzed = NULL
  /\ cgraph_function_flags_ready = FALSE
  /\ counter = 0
  /\ trace = <<>>
  /\ failure = ""
  /\ last_call = ""
  /\ last_decl = NULL
  /\ last_nested = FALSE
  /\ diagnostics = <<>>
  /\ ggc = NoCollection
  /\ nevents = 0
  /\ nunits = 0

EmptyWorklists ==
  /\ cgraph_nodes_queue = <<>>
  /\ vtree = [v \in Vars |-> NewVarTree]
  /\ vnode = [v \in Vars |-> NewVarNode]
  /\ varpool_queue = <<>>
  /\ varpool_unanalyzed = <<>>

\* verify_cgraph is entered on a drawn callgraph; errors have been reported
\* only where no edge was built.
VerifyInit ==
  /\ flag_unit_at_a_time = TRUE
  /\ dump_tree_all = FALSE
  /\ DrawnFunctions
  /\ errorcount \in (IF edges = <<>> THEN {0, 1} ELSE {0})
  /\ sorrycount \in (IF edges = <<>> /\ errorcount = 0 THEN {0, 1} ELSE {0})
  /\ EmptyWorklists
  /\ FreshDriver
  /\ cgraph_global_info_ready = TRUE
  /\ pc = "verify_cgraph"
  /\ work = cgraph_nodes

\* One turn of the loop of verify_cgraph: verify_cgraph_node on the next node.
\* An internal error, or gcc_unreachable, ends the compiler with the graph
\* as the verifier left it.
VerifyNode ==
  /\ pc = "verify_cgraph"
  /\ work # <<>>
  /\ ~(work = cgraph_nodes /\ (sorrycount # 0 \/ errorcount # 0))
  /\ LET g == verify_cgraph_node([G EXCEPT !.decl = Head(work)], Head(work))
     IN /\ pc' = IF g.fail = "" THEN "verify_cgraph"
                 ELSE IF g.error_found THEN "internal_error" ELSE "abort"
        /\ failure' = g.fail
        /\ edges' = g.edges
        /\ node' = g.node
        /\ cgraph_nodes' = g.nodes
        /\ diagnostics' = g.errors
        /\ errorcount' = g.errorcount
        /\ last_decl' = g.decl
  /\ work' = Tail(work)
  /\ last_call' = "verify_cgraph_node"
  /\ UNCHANGED <<flag_unit_at_a_time, flag_whole_program, have_ctors_dtors,
                 sorrycount, dump_tree_all, node_decl, next_clone,
                 cgraph_nodes_queue, tree, vtree, vnode, varpool_queue,
                 varpool_unanalyzed, first_analyzed, cgraph_global_info_ready,
                 cgraph_function_flags_ready, counter, trace, last_nested, ggc,
                 nevents, nunits>>

\* verify_cgraph returns when it has verified every node, and at once when
\* it is entered after an error or a sorry.
VerifyReturn ==
  /\ pc = "verify_cgraph"
  /\ work = <<>> \/ (work = cgraph_nodes /\ (sorrycount # 0 \/ errorcount # 0))
  /\ pc' = "verified"
  /\ last_call' = "verify_cgraph"
  /\ UNCHANGED <<flag_unit_at_a_time, flag_whole_program, have_ctors_dtors,
                 sorrycount, dump_tree_all, node_decl, next_clone,
                 node, cgraph_nodes, cgraph_nodes_queue, edges, tree, vtree,
                 vnode, varpool_queue, varpool_unanalyzed, first_analyzed,
                 cgraph_global_info_ready, cgraph_function_flags_ready, counter,
                 trace, work, failure, last_decl, last_nested, diagnostics,
                 errorcount, ggc, nevents, nunits>>

VerifyNext == VerifyNode \/ VerifyReturn

SpecVerify == VerifyInit /\ [][VerifyNext]_vars

\* ------------------------------------------------- the analyzer's machine
\* cgraph_reset_node and cgraph_analyze_function applied to a drawn callgraph
\* in which no aux field is set: a node with a body is reset, analyzed, and
\* analyzed again over the same body.
AnalyzeInit ==
  /\ flag_unit_at_a_time \in BOOLEAN
  /\ dump_tree_all = FALSE
  /\ DrawnFunctions
  /\ AuxClear(edges)
  /\ errorcount = 0
  /\ sorrycount = 0
  /\ EmptyWorklists
  /\ FreshDriver
  /\ cgraph_global_info_ready = FALSE
  /\ pc = "analyze"
  /\ work = <<>>

ResetNode(n) ==
  /\ pc = "analyze"
  /\ tree[n].has_body
  /\ Store(cgraph_reset_node([G EXCEPT !.decl = n], n), "reset", "cgraph_reset_node")
  /\ UNCHANGED <<flag_unit_at_a_time, flag_whole_program, have_ctors_dtors,
                 sorrycount, dump_tree_all, node_decl, next_clone,
                 first_analyzed, cgraph_global_info_ready, counter, work,
                 nevents, nunits>>

AnalyzeFunction ==
  /\ pc \in {"reset", "analyzed"}
  /\ Store(cgraph_analyze_function([G EXCEPT !.decl = last_decl], last_decl),
           IF pc = "reset" THEN "analyzed" ELSE "reanalyzed",
           "cgraph_analyze_function")
  /\ UNCHANGED <<flag_unit_at_a_time, flag_whole_program, have_ctors_dtors,
                 sorrycount, dump_tree_all, node_decl, next_clone,
                 first_analyzed, cgraph_global_info_ready, counter, work,
                 nevents, nunits>>

AnalyzeNext == (\E n \in UserDecls : ResetNode(n)) \/ AnalyzeFunction

SpecAnalyze == AnalyzeInit /\ [][AnalyzeNext]_vars

\* ----------------------------------------------------- cgraph_reset_node
\* cgraph_reset_node run on a function of a drawn callgraph, in either
\* mode: the nodes carry any marks, the reachable ones wait on the function
\* worklist or have left it, and there is at most one call edge.
Worklists ==
  {<<>>} \cup {<<n>> : n \in UserDecls}
         \cup {q \in {<<n, m>> : n \in UserDecls, m \in UserDecls} :
                   q[1] # q[2]}

ResetInit ==
  /\ flag_unit_at_a_time \in BOOLEAN
  /\ dump_tree_all = FALSE
  /\ DrawnFunctionsOf({K_static}, AnyMarks)
  /\ \A d \in UserDecls : tree[d].body = <<>>
  /\ Len(edges) <= 1
  /\ AuxClear(edges)
  /\ cgraph_nodes_queue \in Worklists
  /\ \A n \in SeqToSet(cgraph_nodes_queue) :
        node[n].reachable /\ node[n].inlined_to = NULL
  /\ errorcount = 0
  /\ sorrycount = 0
  /\ vtree = [v \in Vars |-> NewVarTree]
  /\ vnode = [v \in Vars |-> NewVarNode]
  /\ varpool_queue = <<>>
  /\ varpool_unanalyzed = <<>>
  /\ FreshDriver
  /\ cgraph_global_info_ready = FALSE
  /\ pc = "analyze"
  /\ work = <<>>

ResetNext == \E n \in UserDecls : ResetNode(n)

SpecReset == ResetInit /\ [][ResetNext]_vars

\* ------------------------------------------------- the emission of code
\* The two ways to cgraph_expand_function, taken from a drawn callgraph in
\* which every node is the node of its own declaration, inlined somewhere
\* or not, external or not, with any marks; any of them may wait on the
\* function worklist.  When not doing unit-at-a-time it is one call of
\* cgraph_assemble_pending_functions; otherwise it is
\* cgraph_mark_functions_to_output and the loop of
\* cgraph_expand_all_functions, as cgraph_optimize calls them.
EmitInit ==
  /\ flag_unit_at_a_time \in BOOLEAN
  /\ dump_tree_all = FALSE
  /\ DrawnFunctionsOf({K_static}, AnyMarks)
  /\ \A n \in UserDecls : node_decl[n] = n /\ tree[n].body = <<>>
  /\ Len(edges) <= 1
  /\ AuxClear(edges)
  /\ cgraph_nodes_queue \in Worklists
  /\ \A n \in SeqToSet(cgraph_nodes_queue) :
        node[n].reachable /\ node[n].finalized /\ tree[n].has_body
  /\ errorcount = 0
  /\ sorrycount = 0
  /\ vtree = [v \in Vars |-> NewVarTree]
  /\ vnode = [v \in Vars |-> NewVarNode]
  /\ varpool_queue = <<>>
  /\ varpool_unanalyzed = <<>>
  /\ FreshDriver
  /\ cgraph_global_info_ready = flag_unit_at_a_time
  /\ pc = "emit"
  /\ work = <<>>

Emit_Pending ==
  /\ pc = "emit"
  /\ ~flag_unit_at_a_time
  /\ Store(cgraph_assemble_pending_functions(G)[1], "emitted",
           "assemble_pending_functions")
  /\ UNCHANGED <<flag_unit_at_a_time, flag_whole_program, have_ctors_dtors,
                 sorrycount, dump_tree_all, node_decl, next_clone,
                 first_analyzed, cgraph_global_info_ready, counter, work,
                 nevents, nunits>>

Emit_Mark ==
  /\ pc = "emit"
  /\ flag_unit_at_a_time
  /\ \E g \in {cgraph_mark_functions_to_output(G)} :
       /\ work' = IF g.fail # "" THEN work ELSE ExpandOrder(g)
       /\ Store(g, "emit_expand", "mark_functions_to_output")
  /\ UNCHANGED <<flag_unit_at_a_time, flag_whole_program, have_ctors_dtors,
                 sorrycount, dump_tree_all, node_decl, next_clone,
                 first_analyzed, cgraph_global_info_ready, counter,
                 nevents, nunits>>

Emit_Expand ==
  /\ pc = "emit_expand"
  /\ work # <<>>
  /\ work' = SubSeq(work, 1, Len(work) - 1)
  /\ Store(ExpandStep(G, work[Len(work)]), "emit_expand", "expand_all_functions")
  /\ UNCHANGED <<flag_unit_at_a_time, flag_whole_program, have_ctors_dtors,
                 sorrycount, dump_tree_all, node_decl, next_clone,
                 first_analyzed, cgraph_global_info_ready, counter,
                 nevents, nunits>>

EmitNext == Emit_Pending \/ Emit_Mark \/ Emit_Expand

SpecEmit == EmitInit /\ [][EmitNext]_vars

\* ------------------------------------------------ cgraph_expand_function
\* cgraph_expand_function run on a function of a drawn callgraph: function 1
\* static or static inline, at most one call edge, the tree dumps enabled or
\* not.  cgraph_global_info_ready is what cgraph_optimize has made it by
\* then: true in unit-at-a-time mode, false otherwise.
ExpandInit ==
  /\ flag_unit_at_a_time \in BOOLEAN
  /\ dump_tree_all \in BOOLEAN
  /\ DrawnFunctionsOf({K_static, K_static_inline}, Unmarked)
  /\ Len(edges) <= 1
  /\ AuxClear(edges)
  /\ errorcount = 0
  /\ sorrycount = 0
  /\ EmptyWorklists
  /\ FreshDriver
  /\ cgraph_global_info_ready = flag_unit_at_a_time
  /\ pc = "expand"
  /\ work = <<>>

ExpandFunction(n) ==
  /\ pc = "expand"
  /\ node_decl[n] = n
  /\ node[n].analyzed
  /\ tree[n].has_body
  /\ Store(cgraph_expand_function([G EXCEPT !.decl = n], n), "expanded", "expand")
  /\ UNCHANGED <<flag_unit_at_a_time, flag_whole_program, have_ctors_dtors,
                 sorrycount, dump_tree_all, node_decl, next_clone,
                 first_analyzed, cgraph_global_info_ready, counter, work,
                 nevents, nunits>>

ExpandNext == \E n \in UserDecls : ExpandFunction(n)

SpecExpand == ExpandInit /\ [][ExpandNext]_vars

\* ------------------------------------------- the end of cgraph_optimize
\* The last statements of cgraph_optimize, from the call of
\* cgraph_varpool_assemble_pending_decls on, run on a drawn callgraph with
\* every variable finalized, needed and waiting in the queue, no call edge
\* built, and an error or a sorry reported or not.
TailInit ==
  /\ flag_unit_at_a_time \in BOOLEAN
  /\ dump_tree_all \in BOOLEAN
  /\ DrawnFunctions
  /\ edges = <<>>
  /\ errorcount \in {0, 1}
  /\ sorrycount \in (IF errorcount = 0 THEN {0, 1} ELSE {0})
  /\ vtree = [v \in Vars |-> NewVarTree]
  /\ vnode = [v \in Vars |-> [NewVarNode EXCEPT !.finalized = TRUE,
                                                !.needed = TRUE,
                                                !.analyzed = TRUE]]
  /\ cgraph_nodes_queue = <<>>
  /\ varpool_queue = [i \in 1..NVar |-> i]
  /\ varpool_unanalyzed = <<>>
  /\ FreshDriver
  /\ cgraph_global_info_ready = TRUE
  /\ pc = "opt_tail"
  /\ work = <<>>

Tail_Assemble ==
  /\ pc = "opt_tail"
  /\ Store(cgraph_varpool_assemble_pending_decls(G), "opt_verify", "optimize")
  /\ UNCHANGED <<flag_unit_at_a_time, flag_whole_program, have_ctors_dtors,
                 sorrycount, dump_tree_all, node_decl, next_clone,
                 first_analyzed, cgraph_global_info_ready, counter, work,
                 nevents, nunits>>

Tail_Verify ==
  /\ pc = "opt_verify"
  /\ Store(verify_cgraph(G), "opt_sweep", "optimize")
  /\ UNCHANGED <<flag_unit_at_a_time, flag_whole_program, have_ctors_dtors,
                 sorrycount, dump_tree_all, node_decl, next_clone,
                 first_analyzed, cgraph_global_info_ready, counter, work,
                 nevents, nunits>>

Tail_Sweep ==
  /\ pc = "opt_sweep"
  /\ Store(ReleasedMemorySweep(G), "optimized", "optimize")
  /\ UNCHANGED <<flag_unit_at_a_time, flag_whole_program, have_ctors_dtors,
                 sorrycount, dump_tree_all, node_decl, next_clone,
                 first_analyzed, cgraph_global_info_ready, counter, work,
                 nevents, nunits>>

TailNext == Tail_Assemble \/ Tail_Verify \/ Tail_Sweep

SpecTail == TailInit /\ [][TailNext]_vars

\* ------------------------------------------------------------- properties
Live == SeqToSet(cgraph_nodes)

\* The nodes created since the previous cgraph_finalize_compilation_unit.
NewNodes == SeqToSet(NodesBefore(cgraph_nodes, first_analyzed))

\* cgraph_finalize_compilation_unit has returned, in whole-unit mode.
UnitReturned ==
  flag_unit_at_a_time /\ pc = "idle" /\ last_call = "finalize_compilation_unit"

\* The reclaiming loop visits node n / has visited every node.
Sweeping(n) == pc = "fcu_sweep" /\ work # <<>> /\ Head(work) = n
SweepDone == pc = "fcu_sweep" /\ work = <<>>

\* C1: in whole-unit mode the reclaiming loop of
\* cgraph_finalize_compilation_unit removes every node created since the
\* previous call that has a body and is not reachable, and resets every such
\* node that is finalized without a body; when the function returns, every
\* node of that range that still has a body is reachable, and one without a
\* body is neither finalized nor analyzed.
C1_ReclaimingSweep ==
  [][
      /\ \A n \in Decls :
           Sweeping(n) =>
             /\ (tree[n].has_body /\ ~node[n].reachable) => ~InSeq(n, cgraph_nodes')
             /\ (node[n].finalized /\ ~tree[n].has_body) =>
                   (/\ InSeq(n, cgraph_nodes')
                    /\ ~node'[n].finalized /\ ~node'[n].analyzed)
      /\ (SweepDone /\ pc' = "idle") =>
            (\A n \in NewNodes :
               /\ tree[n].has_body => node[n].reachable
               /\ ~tree[n].has_body => (~node[n].finalized /\ ~node[n].analyzed))
    ]_vars

\* C1 witness: the reclaiming loop is done, having removed a finalized
\* function that was not reachable and reset one whose body was killed.
C1_Witness ==
  /\ SweepDone
  /\ \E n \in UserDecls : ~InSeq(n, cgraph_nodes) /\ tree[n] # UnknownDecl
  /\ \E n \in NewNodes :
        node[n].redefined_extern_inline /\ ~node[n].finalized /\ ~tree[n].has_body

\* C2: in whole-unit mode, each time cgraph_finalize_compilation_unit returns,
\* every node of the graph has analyzed == finalized, redefined functions and
\* the nodes created before the previous call included.
C2_AnalyzedIffFinalized ==
  UnitReturned => \A n \in Live : node[n].analyzed = node[n].finalized

\* C3: in whole-unit mode, when cgraph_finalize_compilation_unit returns, every
\* call edge of an analyzed node to a function that is finalized and has a body
\* leads to a node that is reachable and analyzed.
C3_ReachabilityClosed ==
  UnitReturned =>
    \A i \in 1..Len(edges) :
      (/\ node[edges[i].caller].analyzed
       /\ node[edges[i].callee].finalized
       /\ tree[edges[i].callee].has_body)
      => (node[edges[i].callee].reachable /\ node[edges[i].callee].analyzed)

\* The functions reached from those of S along call edges, S included.
RECURSIVE CalleesClosure(_)
CalleesClosure(S) ==
  LET more == {edges[i].callee : i \in {j \in 1..Len(edges) : edges[j].caller \in S}}
  IN IF more \subseteq S THEN S ELSE CalleesClosure(S \cup more)

Callees(n) ==
  {edges[i].callee : i \in {j \in 1..Len(edges) : edges[j].caller = n}}

Acyclic == \A n \in Decls : n \notin CalleesClosure(Callees(n))

\* A step that passes node n to cgraph_expand_function, clearing its output
\* flag.
Expands(n) == node[n].output /\ ~node'[n].output

\* C4: when cgraph_expand_all_functions passes a function to
\* cgraph_expand_function and the callgraph is acyclic, every function it calls
\* that was marked for output has been expanded before: none is still marked,
\* and each one that had to be output is in the emission order already.
C4_CalleesBeforeCallers ==
  [][\A n \in Decls :
       (Expands(n) /\ Acyclic) =>
         \A i \in 1..Len(edges) :
           edges[i].caller = n =>
             /\ ~node[edges[i].callee].output
             /\ (/\ node[edges[i].callee].reachable
                 /\ edges[i].inline_failed # ""
                 /\ ~tree[edges[i].callee].external
                 /\ InSeq(edges[i].callee, cgraph_nodes))
                => InSeq(edges[i].callee, trace)
    ]_vars

\* C4 witness: in the chain constructor -> 1 -> 2 the constructor is the one
\* function left to expand, after 2 and then 1.
C4_Witness ==
  /\ pc = "opt_expand"
  /\ \E n \in CdtorDecls : node[n].output
  /\ trace = <<2, 1>>
  /\ Acyclic
  /\ \E i \in 1..Len(edges) : edges[i].callee = 1 /\ edges[i].caller \in CdtorDecls

\* C5: cgraph_expand_all_functions passes to cgraph_expand_function each node
\* that has output set when it starts, once, and no other node: a marked node
\* is in the order array and not expanded yet, an expansion is that of a
\* marked node and clears its mark, and no node is marked when the function
\* returns.
C5_ExpandsMarkedOnce ==
  [][
      /\ pc' = "opt_expand" =>
            \A n \in Decls :
              node'[n].output => (InSeq(n, work') /\ ~InSeq(n, trace'))
      /\ pc = "opt_expand" =>
            /\ \A n \in Decls : Expands(n) => trace' = Append(trace, n)
            /\ trace' # trace =>
                  \E n \in Decls : Expands(n) /\ trace' = Append(trace, n)
      /\ (pc = "opt_expand" /\ pc' = "idle") =>
            \A n \in Decls : ~node[n].output /\ ~node'[n].output
    ]_vars

\* C5 witness: the expansion loop has expanded the two functions that were
\* marked and no mark is left.
C5_Witness ==
  /\ pc = "opt_expand"
  /\ work = <<>>
  /\ Len(trace) = 2
  /\ \A n \in Decls : ~node[n].output

\* C6: in every state, a node that has output set is reachable, analyzed and
\* finalized, its declaration is not external and it is not inlined into
\* another function.
C6_OutputImplies ==
  \A n \in Decls :
    node[n].output =>
      /\ node[n].reachable
      /\ node[n].analyzed
      /\ node[n].finalized
      /\ ~tree[n].external
      /\ node[n].inlined_to = NULL

\* cgraph_build_static_cdtor is called with a valid kind and builds function d.
BuildsCdtor(d) ==
  /\ counter' = counter + 1
  /\ d = NDecl + counter + 1
  /\ failure' # "build_static_cdtor: gcc_unreachable"

\* C7: once cgraph_global_info_ready is set, no step makes an unreachable node
\* reachable or adds a node to the function worklist, and a
\* cgraph_build_static_cdtor call hands its function to the back-end directly:
\* the function is written out and no node is created or finalized for it.
C7_NoReachabilityAfterReady ==
  [][cgraph_global_info_ready =>
       /\ \A n \in Decls : node'[n].reachable => node[n].reachable
       /\ \A n \in Decls :
            InSeq(n, cgraph_nodes_queue') => InSeq(n, cgraph_nodes_queue)
       /\ Len(cgraph_nodes_queue') <= Len(cgraph_nodes_queue)
       /\ \A d \in CdtorDecls :
            BuildsCdtor(d) =>
              /\ pc' = "idle"
              /\ tree'[d].asm_written
              /\ trace' = Append(trace, d)
              /\ node' = node
              /\ cgraph_nodes' = cgraph_nodes
    ]_vars

\* C7 witness: a constructor built after cgraph_optimize has been written out
\* without a callgraph node.
C7_Witness ==
  /\ cgraph_global_info_ready
  /\ pc = "idle"
  /\ \E d \in CdtorDecls :
        /\ tree[d].cdtor = "I"
        /\ tree[d].asm_written
        /\ ~InSeq(d, cgraph_nodes)
        /\ trace # <<>> /\ trace[Len(trace)] = d

\* C8: a static constructor or destructor that cgraph_build_static_cdtor
\* builds before cgraph_optimize is marked needed and reachable by
\* cgraph_finalize_function (and written out at once when not doing
\* unit-at-a-time); cgraph_finalize_compilation_unit leaves it in the graph,
\* analyzed; and it has been expanded when cgraph_optimize returns.
C8_CdtorIsEmitted ==
  [][\A d \in CdtorDecls :
       /\ (BuildsCdtor(d) /\ ~cgraph_global_info_ready) =>
             /\ InSeq(d, cgraph_nodes')
             /\ node'[d].needed /\ node'[d].reachable
             /\ ~flag_unit_at_a_time => InSeq(d, trace')
       /\ (tree[d].cdtor # "" /\ SweepDone /\ pc' = "idle") =>
             /\ InSeq(d, cgraph_nodes')
             /\ node'[d].needed /\ node'[d].reachable /\ node'[d].analyzed
       /\ (tree[d].cdtor # "" /\ pc = "opt_expand" /\ pc' = "idle") =>
             InSeq(d, trace')
    ]_vars

\* C8 witness: cgraph_optimize has returned and the constructor, built before
\* the analysis and called by no function, was analyzed and expanded.
C8_Witness ==
  /\ cgraph_global_info_ready
  /\ pc = "idle"
  /\ \E d \in CdtorDecls :
        /\ InSeq(d, trace)
        /\ node[d].needed /\ node[d].analyzed
        /\ \A i \in 1..Len(edges) : edges[i].callee # d

\* C9: a static constructor built with cgraph_build_static_cdtor ('I', ...)
\* before the analysis, on a target without constructor sections, is
\* TREE_PUBLIC once cgraph_function_and_variable_visibility has run, whatever
\* flag_whole_program is.
C9_CdtorStaysPublic ==
  \A d \in CdtorDecls :
    (/\ ~have_ctors_dtors
     /\ tree[d].cdtor = "I"
     /\ InSeq(d, cgraph_nodes) /\ node[d].analyzed
     /\ pc \in {"opt_ipa", "opt_mark", "opt_expand"})
    => tree[d].public

\* The function is public COMDAT, not main and not attributed "used", no
\* function calls it and it is neither needed nor reachable.
UnreferencedComdat(d) ==
  /\ tree[d].comdat /\ tree[d].public /\ ~tree[d].main /\ ~tree[d].used
  /\ ~node[d].needed /\ ~node[d].reachable
  /\ \A i \in 1..Len(edges) : edges[i].callee # d

\* C10: in whole-unit mode cgraph_finalize_function marks a public COMDAT
\* function neither needed nor reachable when no function calls it and nothing
\* has marked it needed; from cgraph_function_and_variable_visibility on, and
\* when cgraph_optimize returns, the graph holds no finalized node of such a
\* function, its body is released and it has not been expanded.
C10_UnreferencedComdatReclaimed ==
  [][flag_unit_at_a_time =>
       \A d \in UserDecls :
         /\ (/\ nevents' = nevents + 1
             /\ last_call' = "finalize_function"
             /\ pc' = "idle"
             /\ ~node[d].needed /\ ~node[d].reachable
             /\ \A i \in 1..Len(edges) : edges[i].callee # d
             /\ tree'[d].comdat /\ tree'[d].public)
            => (~node'[d].needed /\ ~node'[d].reachable)
         /\ (/\ \/ pc' \in {"opt_ipa", "opt_mark", "opt_expand"}
                \/ pc = "opt_expand" /\ pc' = "idle"
             /\ UnreferencedComdat(d)')
            => /\ ~(InSeq(d, cgraph_nodes') /\ node'[d].finalized)
               /\ ~tree'[d].has_body
               /\ ~InSeq(d, trace')
    ]_vars

\* C10 witness: after cgraph_finalize_compilation_unit, cgraph_optimize has
\* returned, having expanded a function, and a COMDAT function that was
\* finalized is neither in the graph nor expanded.
C10_Witness ==
  /\ flag_unit_at_a_time
  /\ pc = "idle" /\ last_call = "optimize"
  /\ first_analyzed # NULL
  /\ trace # <<>>
  /\ \E d \in UserDecls :
        tree[d].comdat /\ ~InSeq(d, cgraph_nodes) /\ ~InSeq(d, trace)

\* The initializer of variable v holds the address of function f.
AddressIn(v, f) ==
  \E i \in 1..Len(vtree[v].init) :
    vtree[v].init[i].kind = "addr" /\ vtree[v].init[i].d = f

\* No function calls f.
NotCalled(f) == \A i \in 1..Len(edges) : edges[i].callee # f

\* C11: in whole-unit mode, when cgraph_finalize_compilation_unit returns, a
\* finalized function with a body whose address is in the initializer of a
\* needed, finalized variable, and which no function calls, is needed,
\* reachable and analyzed; and when cgraph_optimize returns, such a function
\* whose variable was analyzed has been expanded.
C11_AddressTakenIsEmitted ==
  [][flag_unit_at_a_time =>
       \A v \in Vars, f \in UserDecls :
         /\ (/\ SweepDone /\ pc' = "idle"
             /\ vnode'[v].needed /\ vnode'[v].finalized /\ AddressIn(v, f)'
             /\ InSeq(f, cgraph_nodes') /\ node'[f].finalized /\ tree'[f].has_body
             /\ NotCalled(f)')
            => (node'[f].needed /\ node'[f].reachable /\ node'[f].analyzed)
         /\ (/\ pc = "opt_expand" /\ pc' = "idle"
             /\ vnode'[v].analyzed /\ AddressIn(v, f)'
             /\ InSeq(f, cgraph_nodes') /\ node'[f].finalized
             /\ ~tree'[f].external
             /\ NotCalled(f)')
            => InSeq(f, trace')
    ]_vars

\* A step of cgraph_finalize_function (d, nested) that returns; in whole-unit
\* mode the function does not call the back-end, so no body is released.
Finalizes(d) ==
  /\ nevents' = nevents + 1
  /\ pc' = "idle"
  /\ last_call' = "finalize_function"
  /\ last_decl' = d
  /\ flag_unit_at_a_time => \A e \in Decls : tree[e].has_body => tree'[e].has_body

\* cgraph_finalize_function (d, nested) is called on the finalized function d
\* and returns.
Redefines(d) == Finalizes(d) /\ InSeq(d, cgraph_nodes) /\ node[d].finalized

\* Every call edge to d carries the reason of a redefined extern inline
\* function.
CallersSayRedefined(d) ==
  \A i \in 1..Len(edges) : edges[i].callee = d => edges[i].inline_failed = REDEFINED

NoDuplicates(q) == \A i, j \in 1..Len(q) : q[i] = q[j] => i = j

\* The operand lists the reference walker is run over: the initializers of
\* the variables and the operands of the function bodies.
Walks == Inits \cup {<<[d |-> v, kind |-> "var"]>> : v \in Vars}

\* C13: marking is idempotent.  In every state, marking a node needed twice
\* leaves the graph that marking it once leaves; walking an initializer twice
\* with record_reference leaves the graph that walking it once leaves; and no
\* node occurs twice in the function worklist, no variable twice in the
\* variable worklist.
C13_MarkingIdempotent ==
  /\ NoDuplicates(cgraph_nodes_queue)
  /\ NoDuplicates(varpool_queue)
  /\ \A d \in Decls :
       cgraph_mark_needed_node(cgraph_mark_needed_node(cgraph_node(G, d), d), d)
         = cgraph_mark_needed_node(cgraph_node(G, d), d)
  /\ \A ops \in Walks : WalkInit(WalkInit(G, ops, 1), ops, 1) = WalkInit(G, ops, 1)

\* C13 witness: one function was finalized and reported used twice, and it is
\* on the function worklist, once.
C13_Witness ==
  /\ pc = "idle" /\ last_call = "mark_needed_node" /\ nevents = 3
  /\ counter = 0 /\ nunits = 0
  /\ \A v \in Vars : ~vnode[v].finalized
  /\ \E d \in UserDecls :
       /\ cgraph_nodes = <<d>> /\ last_decl = d
       /\ node[d].finalized /\ ~node[d].redefined_extern_inline
       /\ tree[d].has_body
       /\ node[d].needed /\ cgraph_nodes_queue = <<d>>

Extends(q, p) == Len(p) <= Len(q) /\ SubSeq(q, 1, Len(p)) = p

\* C15: in whole-unit mode cgraph_assemble_pending_functions returns false and
\* leaves the graph as it is; a step of cgraph_finalize_function analyzes no
\* node, calls the back-end for no function and takes nothing off the function
\* worklist; a node becomes analyzed only in the worklist loop of
\* cgraph_finalize_compilation_unit; and the back-end is called for a function
\* only once cgraph_optimize has set cgraph_global_info_ready.
C15_WholeUnitDefers ==
  [][flag_unit_at_a_time =>
       /\ cgraph_assemble_pending_functions(G) = <<G, FALSE>>
       /\ \A d \in Decls :
            Finalizes(d) =>
              /\ \A n \in Decls : node'[n].analyzed => node[n].analyzed
              /\ trace' = trace
              /\ Extends(cgraph_nodes_queue', cgraph_nodes_queue)
       /\ \A n \in Decls :
            (~node[n].analyzed /\ node'[n].analyzed) => pc = "fcu_drain"
       /\ trace' # trace => cgraph_global_info_ready
    ]_vars

\* C15 witness: in whole-unit mode cgraph_finalize_function (decl, false) has
\* returned, leaving the function on the worklist, not analyzed and not
\* expanded.
C15_Witness ==
  /\ flag_unit_at_a_time
  /\ pc = "idle" /\ last_call = "finalize_function" /\ ~last_nested
  /\ \E d \in UserDecls :
       /\ last_decl = d
       /\ InSeq(d, cgraph_nodes_queue)
       /\ node[d].finalized /\ ~node[d].analyzed
  /\ trace = <<>>

\* The back-end is called for function n during the step.
ExpandedNow(n) ==
  \E i \in (Len(trace) + 1)..Len(trace') : trace'[i] = n

\* C16: when not doing unit-at-a-time and cgraph_finalize_function (decl,
\* false) returns, the node of decl is analyzed, the function worklist is
\* empty, and the back-end has been called, during the call, for every node that
\* was taken off the worklist (one that was on it, one that became reachable,
\* or decl itself) and is neither inlined into another function nor external.
C16_StreamingDrains ==
  [][~flag_unit_at_a_time =>
       \A d \in Decls :
         (Finalizes(d) /\ ~last_nested') =>
           /\ node'[d].analyzed
           /\ cgraph_nodes_queue' = <<>>
           /\ Extends(trace', trace)
           /\ \A n \in Decls :
                (/\ node'[n].reachable
                 /\ \/ InSeq(n, cgraph_nodes_queue)
                    \/ ~node[n].reachable
                    \/ n = d
                 /\ node'[n].inlined_to = NULL
                 /\ ~tree'[n].external)
                => ExpandedNow(n)
    ]_vars

\* C16 witness: when not doing unit-at-a-time, the call that finalized
\* function 1 has expanded it and then the COMDAT function 2 that it calls,
\* which was finalized before and not expanded then.
C16_Witness ==
  /\ ~flag_unit_at_a_time
  /\ pc = "idle" /\ last_call = "finalize_function" /\ ~last_nested
  /\ last_decl = 1 /\ nevents = 2
  /\ tree[2].comdat
  /\ trace = <<1, 2>>
  /\ cgraph_nodes_queue = <<>>
  /\ node[1].analyzed

\* C17: a call cgraph_finalize_function (decl, true) does not call
\* ggc_collect, calls the back-end for no function and takes nothing off the
\* function worklist.  A call cgraph_finalize_function (decl, false) calls
\* ggc_collect only after cgraph_assemble_pending_functions: no function is
\* expanded or dequeued once the collector has run, and when not doing
\* unit-at-a-time the worklist is empty when it runs.
C17_CollectsAfterDrain ==
  [][\A d \in Decls :
       Finalizes(d) =>
         /\ last_nested' =>
              /\ ~ggc'.done
              /\ trace' = trace
              /\ Extends(cgraph_nodes_queue', cgraph_nodes_queue)
         /\ (~last_nested' /\ ggc'.done) =>
              /\ ggc'.trace = trace'
              /\ ggc'.queue = cgraph_nodes_queue'
              /\ ~flag_unit_at_a_time => ggc'.queue = <<>>
    ]_vars

\* C17 witness: when not doing unit-at-a-time, cgraph_finalize_function
\* (decl, false) has drained the worklist, on which decl was without having
\* to be expanded, and has then called the collector.
C17_Witness ==
  /\ ~flag_unit_at_a_time
  /\ pc = "idle" /\ last_call = "finalize_function" /\ ~last_nested
  /\ ggc.done /\ ggc.queue = <<>>
  /\ cgraph_nodes_queue = <<>>
  /\ last_decl \in UserDecls
  /\ \E d \in UserDecls :
       d = last_decl /\ node[d].reachable /\ tree[d].external

\* A turn of the loop of verify_cgraph: one call of verify_cgraph_node.
Verifies(n) ==
  /\ pc = "verify_cgraph" /\ work # <<>> /\ Head(work) = n
  /\ last_call' = "verify_cgraph_node" /\ work' = Tail(work)

AuxAbsent(es) == AuxClear(es)

\* C18: when no edge of the graph has its aux field set as verify_cgraph_node
\* is entered, none has it set when verify_cgraph_node is left, whether it
\* returns, ends in internal_error because a check failed, or aborts.
C18_AuxAbsentOnExit ==
  [][\A n \in Decls : (Verifies(n) /\ AuxAbsent(edges)) => AuxAbsent(edges')]_vars

\* The verifier ticked off the edge of one call of function 1, found no edge
\* for the other call, and ended in internal_error.
C18_Witness ==
  /\ pc = "internal_error" /\ last_decl = 1
  /\ diagnostics = <<"missing callgraph edge for call stmt:">>
  /\ \E i \in 1..Len(edges) : edges[i].caller = 1
  /\ AuxAbsent(edges)

\* The callee edges of n made for statement i of its body.
EdgesOfCall(n, i) == {j \in 1..Len(edges) : edges[j].caller = n /\ edges[j].stmt = i}

\* The calls of the body of n and the callee edges of n match one to one, each
\* edge leading to the node of the declaration its statement calls.
Bijection(n) ==
  /\ \A i \in 1..Len(tree[n].body) :
        tree[n].body[i].kind = "call" =>
          /\ Cardinality(EdgesOfCall(n, i)) = 1
          /\ \A j \in EdgesOfCall(n, i) :
                edges[j].callee = tree[n].body[i].d /\ InSeq(edges[j].callee, cgraph_nodes)
  /\ \A j \in 1..Len(edges) :
        edges[j].caller = n =>
          /\ edges[j].stmt \in 1..Len(tree[n].body)
          /\ tree[n].body[edges[j].stmt].kind = "call"

BijectionErrors ==
  {"missing callgraph edge for call stmt:", "shared call_stmt:",
   "edge has no corresponding call_stmt"}

\* C19: whatever functions were finalized, redefined and analyzed, every
\* analyzed node with a body that has not been compiled yet (the nodes whose
\* calls verify_cgraph_node walks, line 705) has exactly one callee edge for
\* each call statement of the body and no other callee edge, each edge leads
\* to the node of the called declaration, and verify_cgraph_node, run on the
\* node, reports no missing edge, no shared call statement and no edge
\* without a call statement.
C19_EdgesMatchCalls ==
  \A n \in Live :
    (node[n].analyzed /\ tree[n].has_body /\ ~tree[n].asm_written) =>
      /\ Bijection(n)
      /\ \A k \in 1..Len(verify_cgraph_node(G, n).errors) :
            verify_cgraph_node(G, n).errors[k] \notin BijectionErrors

\* A redefined function has been analyzed again, and its body has a call.
C19_Witness ==
  \E n \in Live :
    /\ node[n].analyzed /\ node[n].redefined_extern_inline
    /\ tree[n].has_body
    /\ \E i \in 1..Len(tree[n].body) : tree[n].body[i].kind = "call"
    /\ \E j \in 1..Len(edges) : edges[j].caller = n

\* The callee edges of n, in the order of their creation.
CalleesOf(es, n) == SelectSeq(es, LAMBDA e : e.caller = n)

\* C20: cgraph_analyze_function run a second time on a node that was reset
\* and analyzed, its body unchanged, leaves the node with the callee edges
\* the first analysis built, none of them twice.
C20_ReanalysisKeepsCallees ==
  [][(pc = "analyzed" /\ pc' = "reanalyzed") =>
       CalleesOf(edges', last_decl) = CalleesOf(edges, last_decl)]_vars

\* Node n is not in the clone chain that starts at the node interned for
\* its declaration.
NotInCloneChain(n) == FindClone(G, node_decl[n], n) = NULL

\* C21: verify_cgraph_node ends in an internal error whenever the node it
\* verifies is not found in the clone chain of its declaration.
C21_LostNodeIsAnError ==
  [][\A n \in Decls :
       (Verifies(n) /\ NotInCloneChain(n)) => pc' = "internal_error"]_vars

\* verify_cgraph_node compares the body of n with its edges.
BodyVerified(n) ==
  /\ node[n].analyzed /\ node[n].lowered
  /\ tree[node_decl[n]].has_body /\ ~tree[node_decl[n]].asm_written
  /\ ~tree[node_decl[n]].external \/ node[n].inlined_to # NULL

\* A call statement of n has no edge; the edge of a call statement of n
\* leads to a node of another declaration than the statement calls.
MissingEdge(n) ==
  \E i \in 1..Len(Body(G, n)) :
    Body(G, n)[i].kind = "call" /\ cgraph_edge(G, n, i) = NULL

WrongDeclaration(n) ==
  \E i \in 1..Len(Body(G, n)) :
    /\ Body(G, n)[i].kind = "call"
    /\ cgraph_edge(G, n, i) # NULL
    /\ node_decl[edges[cgraph_edge(G, n, i)].callee] # Body(G, n)[i].d

\* C22: verify_cgraph_node ends in an internal error when a call statement
\* of the node has no callgraph edge, and also when the edge of a call
\* statement leads to another declaration than the statement calls.
C22_MissingOrWrongIsInternalError ==
  [][\A n \in Decls :
       (Verifies(n) /\ BodyVerified(n) /\ (MissingEdge(n) \/ WrongDeclaration(n)))
         => pc' = "internal_error"]_vars

\* C23: with errorcount or sorrycount non-zero,
\* cgraph_varpool_assemble_pending_decls assembles no variable and returns
\* false, verify_cgraph checks no node, the last sweep of cgraph_optimize is
\* not run, and none of the three aborts.
ErrorsReported == errorcount # 0 \/ sorrycount # 0

C23_ErrorsSkipPhases ==
  [][ErrorsReported =>
       /\ pc = "opt_tail" =>
            /\ vtree' = vtree
            /\ ~cgraph_varpool_assemble_pending_decls_changed(G)
            /\ pc' = "opt_verify"
       /\ pc = "opt_verify" =>
            /\ UNCHANGED <<edges, node, cgraph_nodes, diagnostics, errorcount>>
            /\ pc' = "opt_sweep"
       /\ pc = "opt_sweep" => pc' = "optimized" /\ failure' = ""]_vars

\* The three phases have returned after an error although a variable was
\* waiting to be assembled, a call statement had no edge and a body was
\* still in memory.
C23_Witness ==
  /\ pc = "optimized"
  /\ ErrorsReported
  /\ flag_unit_at_a_time /\ ~dump_tree_all
  /\ \E v \in Vars : v \in SeqToSet(varpool_queue) /\ ~vtree[v].asm_written
  /\ \E n \in Live : /\ node[n].analyzed
                      /\ node_decl[n] = n
                      /\ tree[n].has_body
                      /\ tree[n].body # <<>>

\* C24 as stated: after cgraph_expand_function returns, the body is
\* released and the callee edges are removed, unless the tree dumps are
\* enabled or a clone of the declaration is still inlined somewhere; then
\* body and callee edges are as they were.
ExpandReturns(n) == pc = "expand" /\ pc' = "expanded" /\ last_decl' = n

RECURSIVE CloneChain(_)
CloneChain(n) == IF n = NULL THEN {} ELSE {n} \cup CloneChain(next_clone[n])

BodyReleased(n) == ~tree'[n].has_body /\ CalleesOf(edges', n) = <<>>

\* The back-end deletes the clones it has inlined into the function, each
\* with its edges, whatever cgraph_expand_function does next; the other
\* callee edges are the ones that can be kept.
BodyKept(n) ==
  /\ tree'[n].has_body
  /\ tree'[n].body = tree[n].body
  /\ CalleesOf(edges', n) =
       SelectSeq(edges, LAMBDA e : e.caller = n /\ node[e.callee].inlined_to # n)

CloneStillInlined(n) == \E m \in CloneChain(n) : node'[m].inlined_to # NULL

C25_LateRedefinitionAborts ==
  [][(flag_unit_at_a_time /\ nunits >= 1) =>
       \A d \in Decls : ~Redefines(d)]_vars

\* C26: one drain of the function worklist takes the nodes in the order in
\* which they were linked on it, those linked during the drain behind the
\* ones that were waiting.  An iteration of the loop of
\* cgraph_finalize_compilation_unit processes the head of the worklist and no
\* other node, and leaves the rest of the worklist in front of what it
\* links; the functions that one call of cgraph_assemble_pending_functions
\* expands are expanded in the order they had on the worklist, before any
\* function linked meanwhile.
DrainsOne ==
  pc = "fcu_drain" /\ cgraph_nodes_queue # <<>> /\ pc' = "fcu_drain"

Expanded == SubSeq(trace', Len(trace) + 1, Len(trace'))

C26_WorklistIsFifo ==
  [][/\ DrainsOne =>
          /\ Extends(cgraph_nodes_queue', Tail(cgraph_nodes_queue))
          /\ \A n \in Decls \ {Head(cgraph_nodes_queue)} :
                node'[n].analyzed = node[n].analyzed
     /\ (~flag_unit_at_a_time /\ pc = "idle" /\ pc' = "idle") =>
          Extends(Expanded,
                  SelectSeq(cgraph_nodes_queue,
                            LAMBDA n : n \in SeqToSet(Expanded)))]_vars

\* In the middle of a drain a function waits on the worklist and, behind
\* it, a callee of the function analyzed last.
C26_Witness ==
  /\ pc = "fcu_drain"
  /\ Len(cgraph_nodes_queue) >= 2
  /\ \E i \in 1..Len(edges) :
        /\ node[edges[i].caller].analyzed
        /\ edges[i].callee = cgraph_nodes_queue[Len(cgraph_nodes_queue)]
        /\ edges[i].caller \notin SeqToSet(cgraph_nodes_queue)

\* C27 as stated: cgraph_reset_node on a node that is not marked for output
\* leaves it not analyzed, not finalized, redefined_extern_inline, its other
\* local and global fields zero, without callee edges, its callers and its
\* needed flag as they were; in unit-at-a-time mode its reachable flag, the
\* function worklist and the nodes of the graph are as they were too.
ResetReturns(n) == pc = "analyze" /\ pc' = "reset" /\ last_decl' = n

CallersOf(es, n) == SelectSeq(es, LAMBDA e : e.callee = n)

ResetData(n) ==
  /\ ~node'[n].analyzed
  /\ ~node'[n].finalized
  /\ node'[n].redefined_extern_inline
  /\ ~node'[n].local
  /\ ~node'[n].externally_visible
  /\ ~node'[n].inlinable
  /\ ~node'[n].disregard_inline_limits
  /\ node'[n].inlined_to = NULL
  /\ CalleesOf(edges', n) = <<>>
  /\ node'[n].needed = node[n].needed

ResetKeepsUnit(n) ==
  flag_unit_at_a_time =>
    /\ node'[n].reachable = node[n].reachable
    /\ cgraph_nodes_queue' = cgraph_nodes_queue
    /\ cgraph_nodes' = cgraph_nodes

C27_ResetFrame ==
  [][\A n \in UserDecls : ResetReturns(n) =>
        /\ ResetData(n)
        /\ CallersOf(edges', n) = CallersOf(edges, n)
        /\ ResetKeepsUnit(n)]_vars

\* C27, amended: the callers are as they were but for the edges the node
\* has to itself, removed as its callees, and, when not doing
\* unit-at-a-time, the edges from the nodes inlined into it, removed with
\* those nodes.
C27_ResetFrameButOwnCalls ==
  [][\A n \in UserDecls : ResetReturns(n) =>
        /\ ResetData(n)
        /\ CallersOf(edges', n) =
             SelectSeq(edges, LAMBDA e :
               /\ e.callee = n
               /\ e.caller # n
               /\ flag_unit_at_a_time \/ node[e.caller].inlined_to # n)
        /\ ResetKeepsUnit(n)]_vars

\* A reachable, needed node with a caller and with a node inlined into it has
\* been reset and still has the caller.
C27_Witness ==
  /\ pc = "reset"
  /\ last_decl # NULL
  /\ ~node[last_decl].analyzed
  /\ node[last_decl].redefined_extern_inline
  /\ node[last_decl].needed
  /\ CallersOf(edges, last_decl) # <<>>
  /\ flag_unit_at_a_time
  /\ \E m \in UserDecls : node[m].inlined_to = last_decl

\* C28: when not doing unit-at-a-time, after cgraph_reset_node (node) no node
\* is inlined into node, and node is reachable only if it waits on the
\* function worklist.
C28_StreamingReset ==
  [][\A n \in UserDecls : (ResetReturns(n) /\ ~flag_unit_at_a_time) =>
        /\ \A m \in Decls : node'[m].inlined_to # n
        /\ node'[n].reachable => InSeq(n, cgraph_nodes_queue')]_vars

\* Such a reset has removed a node and left its own node reachable on the
\* worklist.
C28_Witness ==
  /\ pc = "reset"
  /\ ~flag_unit_at_a_time
  /\ last_decl # NULL
  /\ node[last_decl].redefined_extern_inline
  /\ node[last_decl].reachable
  /\ InSeq(last_decl, cgraph_nodes_queue)
  /\ Len(cgraph_nodes) < NDecl

\* C29: no node of an external declaration and no node inlined into
\* another is passed to cgraph_expand_function, so its assertion never
\* fails.
C29_ExpandsOnlyRealFunctions ==
  [][/\ failure' # "cgraph_expand_function: !node->global.inlined_to"
     /\ \A i \in 1..Len(Expanded) : ~tree'[Expanded[i]].external]_vars

\* Code has been emitted although an inlined node or an external function
\* was waiting on the worklist or was reachable and needed.
C29_Witness ==
  /\ pc \in {"emitted", "emit_expand"}
  /\ trace # <<>>
  /\ \E n \in UserDecls :
        /\ n \notin SeqToSet(trace)
        /\ node[n].needed
        /\ tree[n].has_body
        /\ node[n].inlined_to # NULL \/ tree[n].external

\* C30: in unit-at-a-time mode cgraph_finalize_compilation_unit terminates;
\* when it returns the function worklist and the worklist of unanalyzed
\* variables are empty; no function is analyzed twice in one call, the
\* assertion "!node->analyzed && node->reachable" never fails; and
\* cgraph_varpool_analyze_pending_decls returns true exactly when its
\* worklist was not empty, with every variable that was on it analyzed.
InFinalizeUnit == pc \in {"fcu_drain", "fcu_sweep"}

AnalyzesPendingDecls ==
  /\ cgraph_varpool_analyze_pending_decls_changed(G) = (varpool_unanalyzed # <<>>)
  /\ cgraph_varpool_analyze_pending_decls(G).vunan = <<>>
  /\ \A v \in SeqToSet(varpool_unanalyzed) :
        cgraph_varpool_analyze_pending_decls(G).vnode[v].analyzed

C30_FinalizeUnitCompletes ==
  /\ [](UnitReturned =>
          cgraph_nodes_queue = <<>> /\ varpool_unanalyzed = <<>>)
  /\ [](failure # "finalize_compilation_unit: !node->analyzed && node->reachable")
  /\ [][DrainsOne =>
          \A n \in Decls : (node'[n].analyzed /\ ~node[n].analyzed) =>
             n = Head(cgraph_nodes_queue)]_vars
  /\ []AnalyzesPendingDecls
  /\ (InFinalizeUnit ~> ~InFinalizeUnit)

\* cgraph_finalize_compilation_unit has returned after analyzing a function
\* and a variable.
C30_Witness ==
  /\ UnitReturned
  /\ \E n \in Live : node[n].analyzed
  /\ \E v \in Vars : vnode[v].analyzed

\* The step of cgraph_optimize that runs
\* cgraph_function_and_variable_visibility to its end.
VisibilityDone == pc = "idle" /\ pc' = "opt_ipa"

\* C31: when cgraph_function_and_variable_visibility has processed the nodes,
\* every function node of the graph has local equal to
\* !needed && analyzed && !DECL_EXTERNAL && !externally_visible, so none is
\* both local and externally_visible; every analyzed node that is neither
\* external nor externally_visible has TREE_PUBLIC cleared; and the assertion
\* "flag_whole_program || !TREE_PUBLIC (node->decl)" never fails, every
\* analyzed node being reachable in whole-unit mode.
C31_VisibilityMarksLocal ==
  /\ [][VisibilityDone =>
          \A n \in SeqToSet(cgraph_nodes') :
            /\ node'[n].local =
                  (/\ ~node'[n].needed /\ node'[n].analyzed
                   /\ ~tree'[n].external /\ ~node'[n].externally_visible)
            /\ ~(node'[n].local /\ node'[n].externally_visible)
            /\ (/\ node'[n].analyzed /\ ~tree'[n].external
                /\ ~node'[n].externally_visible) => ~tree'[n].public]_vars
  /\ [](failure # "visibility: flag_whole_program || !TREE_PUBLIC (node->decl)")
  /\ [](flag_unit_at_a_time =>
          \A n \in SeqToSet(cgraph_nodes) :
            node[n].analyzed => node[n].reachable)

\* The visibility pass has left an analyzed local function beside an analyzed
\* externally visible one.
C31_Witness ==
  /\ pc = "opt_ipa"
  /\ \E n \in Live : node[n].local /\ node[n].analyzed
  /\ \E m \in Live : node[m].externally_visible /\ node[m].analyzed

\* Function d was marked needed and no body of it has been finalized: the
\* node is neither finalized nor reset.
MarkedBeforeBody(d) ==
  /\ InSeq(d, cgraph_nodes)
  /\ node[d].needed /\ ~node[d].finalized /\ ~node[d].redefined_extern_inline
  /\ ~cgraph_global_info_ready

\* The front-end finalizes function d.
FinalizesFunction(d) ==
  /\ pc = "idle" /\ nevents' = nevents + 1
  /\ last_call' = "finalize_function" /\ last_decl' = d

\* The graph cgraph_finalize_function (d, nested) leaves when the front-end
\* has given d the flags k and the body b.
Finalized(d, k, b, nested) ==
  cgraph_finalize_function(
    [G EXCEPT !.tree[d] = [NewTree(k) EXCEPT !.has_body = TRUE, !.body = b,
                                             !.asm_written = tree[d].asm_written],
              !.decl = d, !.nested = nested], d, nested)

\* C32: a function node marked needed before its body was finalized is found
\* needed by decide_is_function_needed at the cgraph_finalize_function call
\* on it, becomes reachable at that call and is put on the function worklist
\* (which the call itself drains when it is not doing unit-at-a-time and the
\* function is not nested); in whole-unit mode the
\* cgraph_finalize_compilation_unit that follows the call analyzes the node
\* and does not remove it.
C32_EarlyNeededIsAnalyzed ==
  /\ [][\A d \in Decls :
          (MarkedBeforeBody(d) /\ FinalizesFunction(d)) =>
            /\ decide_is_function_needed(G, d)
            /\ failure' = ""
            /\ node'[d].needed /\ node'[d].reachable /\ node'[d].finalized
            /\ IF flag_unit_at_a_time \/ last_nested'
               THEN InSeq(d, cgraph_nodes_queue')
               ELSE cgraph_nodes_queue' = <<>>]_vars
  /\ [](\A d \in UserDecls :
          (pc = "idle" /\ flag_unit_at_a_time /\ MarkedBeforeBody(d)) =>
            \A k \in KindsOf(d), b \in BodiesOf(d), nested \in BOOLEAN :
              LET r == Finalized(d, k, b, nested)
                  u == cgraph_finalize_compilation_unit(r, first_analyzed)
              IN /\ r.fail = "" /\ InSeq(d, r.queue)
                 /\ FinalizeUnitDrain(r).fail = ""
                 /\ FinalizeUnitDrain(r).node[d].analyzed
                 /\ u.fail = "" => InSeq(d, u.nodes) /\ u.node[d].analyzed)

\* cgraph_finalize_function has just been called, in whole-unit mode, on a
\* static function that nothing but an earlier cgraph_mark_needed_node makes
\* needed, and the function waits on the worklist.
C32_Witness ==
  /\ pc = "idle" /\ last_call = "finalize_function" /\ flag_unit_at_a_time
  /\ \E d \in UserDecls :
        /\ last_decl = d
        /\ node[d].needed /\ node[d].finalized /\ node[d].reachable
        /\ ~node[d].redefined_extern_inline
        /\ ~decide_is_function_needed_no_needed(G, d)
        /\ InSeq(d, cgraph_nodes_queue)

====
